---- MODULE Spec2Model ----
(***************************************************************************)
(* A model of gin-form-binding (package ginbinding): the handler-shape     *)
(* adapter FormBindingGinHandlerFunc, the multi-source decoder             *)
(* bindingFormValue, the coercer stringToVal and the default applier       *)
(* applyDefaultValues, with the parts of gin and encoding/json they call,  *)
(* the DefaultResponseHandler, and calls of the closure that run at the    *)
(* same time.                                                              *)
(*                                                                         *)
(* Conventions.                                                            *)
(*  - A Go string is a sequence of one-character strings, so that the      *)
(*    parsers can be written character by character: "25" is <<"2","5">>.  *)
(*  - A Go type is a record [kind, name, elem, fields, impl]; elem and     *)
(*    fields are sequences (elem is empty or holds the pointee/element     *)
(*    type), impl says whether the type implements the error interface.    *)
(*  - A Go value: an integer for the integer kinds, a string as above,     *)
(*    a boolean, <<>> for a nil pointer and <<v>> for a pointer to v, a    *)
(*    sequence of field values for a struct, a record for a float         *)
(*    ([neg, m, e]: (-1)^neg * m * 10^-e), a duration (an integer number   *)
(*    of milliseconds) and a time.Time.                                    *)
(*  - A Go error is the sequence of the parts of its message; <<>> is nil. *)
(***************************************************************************)
EXTENDS Integers, Sequences, FiniteSets, TLC

VARIABLES
  builder,  \* the builder: [validator: "nil" or "set"]
  reg,      \* the registration: [state, fn, handler, err]
  pc,       \* the request being served: where the closure is
  req,      \* the request being served
  form,     \* what bindingFormValue did for it
  out,      \* what the business handler returned: [data, err]
  calls,    \* the calls the closure made for it, in order: [op, err, data]
  deTy,     \* bindingFormValue: the record type (or a pointer to it)
  deReq,    \* bindingFormValue: the request
  deDone,   \* bindingFormValue has been applied to (deReq, deTy)
  deRes,    \* bindingFormValue: what it did
  coS,      \* stringToVal: the source string
  coTy,     \* stringToVal: the target type
  coDone,   \* stringToVal has been applied to (coS, coTy)
  coRes,    \* stringToVal: its result [val, err]
  rhCall,   \* DefaultResponseHandler: the call, [op, err, data]
  rhDone,   \* DefaultResponseHandler: the call has been made
  rhRes,    \* DefaultResponseHandler: the response it wrote, [code, body]
  flight,   \* concurrent requests: for each, where its closure call is
  ins       \* concurrent requests: the argument lists, by the frame holding them

adapterVars == <<builder, reg, pc, req, form, out, calls>>

deVars == <<deTy, deReq, deDone, deRes>>

coVars == <<coS, coTy, coDone, coRes>>

rhVars == <<rhCall, rhDone, rhRes>>

flVars == <<flight, ins>>

vars == <<builder, reg, pc, req, form, out, calls, deTy, deReq, deDone, deRes,
          coS, coTy, coDone, coRes, rhCall, rhDone, rhRes, flight, ins>>

----------------------------------------------------------------------------
(* Strings *)

Digits == {"0", "1", "2", "3", "4", "5", "6", "7", "8", "9"}

DigitVal(c) ==
  CASE c = "0" -> 0 [] c = "1" -> 1 [] c = "2" -> 2 [] c = "3" -> 3
    [] c = "4" -> 4 [] c = "5" -> 5 [] c = "6" -> 6 [] c = "7" -> 7
    [] c = "8" -> 8 [] c = "9" -> 9

\* strings.ToLower on one character (ASCII letters; others are unchanged)
LowerChar(c) ==
  CASE c = "A" -> "a" [] c = "B" -> "b" [] c = "C" -> "c" [] c = "D" -> "d"
    [] c = "E" -> "e" [] c = "F" -> "f" [] c = "G" -> "g" [] c = "H" -> "h"
    [] c = "I" -> "i" [] c = "J" -> "j" [] c = "K" -> "k" [] c = "L" -> "l"
    [] c = "M" -> "m" [] c = "N" -> "n" [] c = "O" -> "o" [] c = "P" -> "p"
    [] c = "Q" -> "q" [] c = "R" -> "r" [] c = "S" -> "s" [] c = "T" -> "t"
    [] c = "U" -> "u" [] c = "V" -> "v" [] c = "W" -> "w" [] c = "X" -> "x"
    [] c = "Y" -> "y" [] c = "Z" -> "z" [] OTHER -> c

ToLower(s) == [i \in 1..Len(s) |-> LowerChar(s[i])]

\* unicode.IsSpace on the characters a source string of the model can hold
IsSpace(c) == c \in {" ", "\t", "\n", "\r"}

RECURSIVE TrimLeft(_)
TrimLeft(s) ==
  IF s # <<>> /\ IsSpace(Head(s)) THEN TrimLeft(Tail(s)) ELSE s

RECURSIVE TrimRight(_)
TrimRight(s) ==
  IF s # <<>> /\ IsSpace(s[Len(s)]) THEN TrimRight(SubSeq(s, 1, Len(s) - 1)) ELSE s

TrimSpace(s) == TrimRight(TrimLeft(s))

AllDigits(s) == \A i \in 1..Len(s) : s[i] \in Digits

RECURSIVE StripZeros(_)
StripZeros(s) ==
  IF Len(s) > 1 /\ Head(s) = "0" THEN StripZeros(Tail(s)) ELSE s

\* The value of a digit string; it is evaluated only for strings whose
\* value is below 2^31.
RECURSIVE DigitsVal(_)
DigitsVal(s) ==
  IF s = <<>> THEN 0 ELSE 10 * DigitsVal(SubSeq(s, 1, Len(s) - 1)) + DigitVal(s[Len(s)])

\* a > b for two digit strings without leading zeros of the same length
RECURSIVE LexGreater(_, _)
LexGreater(a, b) ==
  IF a = <<>> THEN FALSE
  ELSE IF DigitVal(Head(a)) # DigitVal(Head(b))
       THEN DigitVal(Head(a)) > DigitVal(Head(b))
       ELSE LexGreater(Tail(a), Tail(b))

\* a > b as numbers, for two digit strings
DecGreater(a, b) ==
  LET x == StripZeros(a)
      y == StripZeros(b)
  IN IF Len(x) # Len(y) THEN Len(x) > Len(y) ELSE LexGreater(x, y)

----------------------------------------------------------------------------
(* Types (reflect.Type) *)

Ty(kind, name, elem, fields, impl) ==
  [kind |-> kind, name |-> name, elem |-> elem, fields |-> fields, impl |-> impl]

Scalar(kind) == Ty(kind, kind, <<>>, <<>>, FALSE)

Named(kind, name) == Ty(kind, name, <<>>, <<>>, FALSE)

PtrTo(t) == Ty("ptr", "", <<t>>, <<>>, FALSE)

SliceOf(t) == Ty("slice", "", <<t>>, <<>>, FALSE)

StructOf(name, fields) == Ty("struct", name, <<>>, fields, FALSE)

IntKinds == {"int", "int8", "int16", "int32", "int64"}

UintKinds == {"uint", "uint8", "uint16", "uint32", "uint64"}

FloatKinds == {"float32", "float64"}

\* the package-level reflect.Type values of binder.go
ginCtxTy == StructOf("gin.Context", <<>>)

errTy == Ty("interface", "error", <<>>, <<>>, TRUE)

strTy == Scalar("string")

timeTy == StructOf("time.Time", <<>>)

durationTy == Named("int64", "time.Duration")

anyTy == Ty("interface", "any", <<>>, <<>>, FALSE)

\* the width in bits of an integer kind (int and uint are 64 bits wide)
Bits(kind) ==
  CASE kind \in {"int8", "uint8"} -> 8
    [] kind \in {"int16", "uint16"} -> 16
    [] kind \in {"int32", "uint32"} -> 32
    [] OTHER -> 64

\* The zero time.Time (January 1, year 1, 00:00:00 UTC) and the zero float.
\* A time.Time is [date: <<year, month, day>>, clock: <<hour, minute, second>>,
\* frac: the digits of the fractional second without trailing zeros,
\* zone: <<>> for UTC or <<sign, hours, minutes>> for a numeric offset].
ZeroTime == [date |-> <<1, 1, 1>>, clock |-> <<0, 0, 0>>, frac |-> <<>>, zone |-> <<>>]

FloatZero == [neg |-> FALSE, m |-> <<"0">>, e |-> 0]

\* reflect.Zero(ty)
RECURSIVE Zero(_)
Zero(ty) ==
  CASE ty.kind \in IntKinds \cup UintKinds -> 0
    [] ty.kind \in FloatKinds -> FloatZero
    [] ty.kind = "bool" -> FALSE
    [] ty.kind = "struct" /\ ty = timeTy -> ZeroTime
    [] ty.kind = "struct" /\ ty # timeTy ->
         [i \in 1..Len(ty.fields) |-> Zero(ty.fields[i].type)]
    [] OTHER -> <<>>   \* "", a nil pointer, slice, map or interface

\* reflect.Type.ConvertibleTo, from string: to a type of kind string and to
\* a slice of bytes or of runes
StrConvertibleTo(ty) ==
  \/ ty.kind = "string"
  \/ ty.kind = "slice" /\ ty.elem[1].kind \in {"uint8", "int32"}

----------------------------------------------------------------------------
(* The parsers of strconv and time that stringToVal calls *)

Parsed(v) == [ok |-> TRUE, v |-> v, err |-> <<>>]

Failed(zero, err) == [ok |-> FALSE, v |-> zero, err |-> err]

\* the digits of 2^63 - 1 (of 2^63 for a negative number) and of 2^64 - 1
MaxDigits(signed, neg) ==
  IF ~signed
    THEN <<"1","8","4","4","6","7","4","4","0","7","3","7","0","9","5","5","1","6","1","5">>
  ELSE <<"9","2","2","3","3","7","2","0","3","6","8","5","4","7","7","5","8","0">>
         \o (IF neg THEN <<"8">> ELSE <<"7">>)

\* strconv.ParseInt(s, 10, 64): an optional sign, then
\* decimal digits only; a value outside the int64 range is a range error
ParseInt(s) ==
  LET neg  == Head(s) = "-"
      body == IF Head(s) \in {"+", "-"} THEN Tail(s) ELSE s
  IN IF s = <<>> \/ body = <<>> \/ ~AllDigits(body)
       THEN Failed(0, <<"strconv.ParseInt", "invalid syntax">>)
     ELSE IF DecGreater(body, MaxDigits(TRUE, neg))
       THEN Failed(0, <<"strconv.ParseInt", "value out of range">>)
     ELSE Parsed(IF neg THEN 0 - DigitsVal(StripZeros(body)) ELSE DigitsVal(StripZeros(body)))

\* strconv.ParseUint(s, 10, 64): decimal digits only, no sign
ParseUint(s) ==
  IF s = <<>> \/ ~AllDigits(s)
    THEN Failed(0, <<"strconv.ParseUint", "invalid syntax">>)
  ELSE IF DecGreater(s, MaxDigits(FALSE, FALSE))
    THEN Failed(0, <<"strconv.ParseUint", "value out of range">>)
  ELSE Parsed(DigitsVal(StripZeros(s)))

\* reflect.Value.SetInt on a field of the given kind: the int64 is converted
\* to the kind's width without any range check.  (The integers of the model
\* stay below 2^31, so a width of 32 or 64 bits never wraps here.)
SetInt(kind, i) ==
  IF Bits(kind) >= 32 THEN i
  ELSE ((i + 2^(Bits(kind) - 1)) % 2^(Bits(kind))) - 2^(Bits(kind) - 1)

\* reflect.Value.SetUint: as SetInt, for the unsigned kinds
SetUint(kind, i) ==
  IF Bits(kind) >= 32 THEN i ELSE i % 2^(Bits(kind))

RECURSIVE StripTrailingZeros(_)
StripTrailingZeros(s) ==
  IF s # <<>> /\ s[Len(s)] = "0" THEN StripTrailingZeros(SubSeq(s, 1, Len(s) - 1)) ELSE s

\* the index of the first "." of s, or 0
DotAt(s) ==
  IF \E i \in 1..Len(s) : s[i] = "."
    THEN CHOOSE i \in 1..Len(s) : s[i] = "." /\ \A j \in 1..(i - 1) : s[j] # "."
    ELSE 0

\* strconv.ParseFloat(s, 64) on the decimal notation without exponent
\* (sign, digits, optional point and digits).  The source strings of the
\* model hold no exponent, hexadecimal, infinity or NaN notation.
ParseFloat(s) ==
  LET neg  == Head(s) = "-"
      body == IF Head(s) \in {"+", "-"} THEN Tail(s) ELSE s
      dot  == DotAt(body)
      ip   == IF dot = 0 THEN body ELSE SubSeq(body, 1, dot - 1)
      fp   == IF dot = 0 THEN <<>> ELSE SubSeq(body, dot + 1, Len(body))
      fs   == StripTrailingZeros(fp)
  IN IF s = <<>> \/ (ip = <<>> /\ fp = <<>>) \/ ~AllDigits(ip) \/ ~AllDigits(fp)
       THEN Failed(FloatZero, <<"strconv.ParseFloat", "invalid syntax">>)
     ELSE Parsed([neg |-> neg, m |-> StripZeros(ip \o fs), e |-> Len(fs)])

IsUnitChar(c) == c \notin Digits /\ c # "."

\* the length of the longest prefix of s made of digits
DigitPrefixLen(s) ==
  CHOOSE n \in 0..Len(s) :
    /\ \A i \in 1..n : s[i] \in Digits
    /\ (n = Len(s) \/ s[n + 1] \notin Digits)

\* the length of the longest prefix of s made of unit characters
UnitPrefixLen(s) ==
  CHOOSE n \in 0..Len(s) :
    /\ \A i \in 1..n : IsUnitChar(s[i])
    /\ (n = Len(s) \/ ~IsUnitChar(s[n + 1]))

\* time's unitMap, in milliseconds (the model counts durations in
\* milliseconds; its source strings hold no ns or us unit and no fraction)
UnitMs(u) ==
  CASE u = <<"m", "s">> -> 1
    [] u = <<"s">> -> 1000
    [] u = <<"m">> -> 60000
    [] u = <<"h">> -> 3600000
    [] OTHER -> 0

\* the loop of time.ParseDuration: groups of digits followed by a unit
RECURSIVE DurationGroups(_)
DurationGroups(s) ==
  IF s = <<>> THEN Parsed(0)
  ELSE LET nd   == DigitPrefixLen(s)
           rest == SubSeq(s, nd + 1, Len(s))
           nu   == UnitPrefixLen(rest)
           unit == SubSeq(rest, 1, nu)
           more == DurationGroups(SubSeq(rest, nu + 1, Len(rest)))
       IN IF nd = 0 THEN Failed(0, <<"time", "invalid duration">>)
          ELSE IF nu = 0 THEN Failed(0, <<"time", "missing unit in duration">>)
          ELSE IF UnitMs(unit) = 0 THEN Failed(0, <<"time", "unknown unit in duration">>)
          ELSE IF ~more.ok THEN more
          ELSE Parsed(DigitsVal(SubSeq(s, 1, nd)) * UnitMs(unit) + more.v)

\* time.ParseDuration(s)
ParseDuration(s) ==
  LET neg  == Head(s) = "-"
      body == IF Head(s) \in {"+", "-"} THEN Tail(s) ELSE s
      g    == DurationGroups(body)
  IN IF s = <<>> THEN Failed(0, <<"time", "invalid duration">>)
     ELSE IF body = <<"0">> THEN Parsed(0)
     ELSE IF body = <<>> THEN Failed(0, <<"time", "invalid duration">>)
     ELSE IF ~g.ok THEN g
     ELSE Parsed(IF neg THEN 0 - g.v ELSE g.v)

----------------------------------------------------------------------------
(* time.Parse on the layouts of stringToVal.  A layout is the sequence of  *)
(* its elements: the standard chunks "2006", "01", "02", "15", "04", "05", *)
(* "Z07:00", ".999999999", ".000", and literal characters.                 *)

RFC3339 == <<"2006", "-", "01", "-", "02", "T", "15", ":", "04", ":", "05", "Z07:00">>

\* the timeFormats of stringToVal, in the order of the source
timeFormats ==
  << RFC3339,
     <<"2006", "-", "01", "-", "02", "T", "15", ":", "04", ":", "05", ".999999999", "Z07:00">>,
     <<"2006", "-", "01", "-", "02", " ", "15", ":", "04", ":", "05">>,
     <<"2006", "-", "01", "-", "02", "T", "15", ":", "04", ":", "05", "Z">>,
     <<"2006", "-", "01", "-", "02", "T", "15", ":", "04", ":", "05", ".000", "Z">>,
     <<"2006", "-", "01", "-", "02">>,
     <<"15", ":", "04", ":", "05">> >>

TimeBad(why) == Failed(ZeroTime, <<"parsing time", why>>)

DaysIn(month, year) ==
  CASE month \in {4, 6, 9, 11} -> 30
    [] month = 2 ->
         IF year % 4 = 0 /\ (year % 100 # 0 \/ year % 400 = 0) THEN 29 ELSE 28
    [] OTHER -> 31

DigitAt(s, i) == i <= Len(s) /\ s[i] \in Digits

From(s, i) == SubSeq(s, i, Len(s))

\* a fractional second at the head of s: "." or "," and at least one digit
HasFraction(s) == Len(s) >= 2 /\ s[1] \in {".", ","} /\ DigitAt(s, 2)

RECURSIVE CutSpace(_)
CutSpace(s) == IF s # <<>> /\ Head(s) = " " THEN CutSpace(Tail(s)) ELSE s

RECURSIVE timeParse(_, _, _)
timeParse(layout, s, acc) ==
  IF layout = <<>>
    THEN IF s # <<>> THEN TimeBad("extra text")
         ELSE IF acc.date[3] < 1 \/ acc.date[3] > DaysIn(acc.date[2], acc.date[1])
                THEN TimeBad("day out of range")
         ELSE Parsed(acc)
  ELSE
    LET tok  == Head(layout)
        rest == Tail(layout)
        two  == IF DigitAt(s, 1) /\ DigitAt(s, 2) THEN DigitsVal(SubSeq(s, 1, 2)) ELSE 0 - 1
        nfr  == DigitPrefixLen(From(s, 2))
    IN CASE tok = "2006" ->
              IF Len(s) >= 4 /\ AllDigits(SubSeq(s, 1, 4))
                THEN timeParse(rest, From(s, 5),
                               [acc EXCEPT !.date[1] = DigitsVal(StripZeros(SubSeq(s, 1, 4)))])
                ELSE TimeBad("year")
         [] tok = "01" ->
              IF two < 0 THEN TimeBad("month")
              ELSE IF two = 0 \/ two > 12 THEN TimeBad("month out of range")
              ELSE timeParse(rest, From(s, 3), [acc EXCEPT !.date[2] = two])
         [] tok = "02" ->
              IF two < 0 THEN TimeBad("day")
              ELSE timeParse(rest, From(s, 3), [acc EXCEPT !.date[3] = two])
         [] tok = "15" ->   \* getnum(value, false): one or two digits
              IF ~DigitAt(s, 1) THEN TimeBad("hour")
              ELSE IF ~DigitAt(s, 2)
                THEN timeParse(rest, From(s, 2), [acc EXCEPT !.clock[1] = DigitVal(s[1])])
              ELSE IF two >= 24 THEN TimeBad("hour out of range")
              ELSE timeParse(rest, From(s, 3), [acc EXCEPT !.clock[1] = two])
         [] tok = "04" ->
              IF two < 0 THEN TimeBad("minute")
              ELSE IF two >= 60 THEN TimeBad("minute out of range")
              ELSE timeParse(rest, From(s, 3), [acc EXCEPT !.clock[2] = two])
         [] tok = "05" ->
              IF two < 0 THEN TimeBad("second")
              ELSE IF two >= 60 THEN TimeBad("second out of range")
              ELSE LET s2 == From(s, 3)
                       n2 == DigitPrefixLen(From(s2, 2))
                   IN \* a fractional second in the input that the layout does
                      \* not announce is accepted after the seconds
                      IF HasFraction(s2)
                         /\ ~(rest # <<>> /\ Head(rest) \in {".999999999", ".000"})
                        THEN timeParse(rest, From(s2, 2 + n2),
                               [acc EXCEPT !.clock[3] = two,
                                           !.frac = StripTrailingZeros(SubSeq(s2, 2, 1 + n2))])
                        ELSE timeParse(rest, s2, [acc EXCEPT !.clock[3] = two])
         [] tok = ".999999999" ->
              IF ~HasFraction(s) THEN timeParse(rest, s, acc)
              ELSE timeParse(rest, From(s, 2 + nfr),
                             [acc EXCEPT !.frac = StripTrailingZeros(SubSeq(s, 2, 1 + nfr))])
         [] tok = ".000" ->
              IF Len(s) >= 4 /\ s[1] \in {".", ","} /\ AllDigits(SubSeq(s, 2, 4))
                THEN timeParse(rest, From(s, 5),
                               [acc EXCEPT !.frac = StripTrailingZeros(SubSeq(s, 2, 4))])
                ELSE TimeBad("fractional second")
         [] tok = "Z07:00" ->
              IF Len(s) >= 1 /\ s[1] = "Z" THEN timeParse(rest, From(s, 2), acc)
              ELSE IF Len(s) >= 6 /\ s[1] \in {"+", "-"} /\ s[4] = ":"
                      /\ AllDigits(SubSeq(s, 2, 3)) /\ AllDigits(SubSeq(s, 5, 6))
                THEN IF DigitsVal(SubSeq(s, 2, 3)) > 24 \/ DigitsVal(SubSeq(s, 5, 6)) > 60
                       THEN TimeBad("time zone offset out of range")
                       ELSE timeParse(rest, From(s, 7),
                              [acc EXCEPT !.zone = <<s[1], DigitsVal(SubSeq(s, 2, 3)),
                                                     DigitsVal(SubSeq(s, 5, 6))>>])
              ELSE TimeBad("time zone")
         [] tok = " " ->    \* a space of the layout skips every space of the input
              IF s # <<>> /\ s[1] # " " THEN TimeBad("literal")
              ELSE timeParse(rest, CutSpace(s), acc)
         [] OTHER ->        \* a literal character
              IF s # <<>> /\ s[1] = tok THEN timeParse(rest, From(s, 2), acc)
              ELSE TimeBad("literal")

\* time.Parse(layout, s); the fields it starts from are year 0, January 1,
\* 00:00:00 UTC
TimeParse(layout, s) ==
  timeParse(layout, s, [date |-> <<0, 1, 1>>, clock |-> <<0, 0, 0>>, frac |-> <<>>, zone |-> <<>>])

\* a coercer that tries one format only
tryTimeFormats_OnlyFirst(s, i) == TimeParse(timeFormats[i], s)

\* the loop over timeFormats of stringToVal from format i on: the result of
\* the first format that parses, else the error of the last one
RECURSIVE tryTimeFormats(_, _)
tryTimeFormats(s, i) ==
  LET r == TimeParse(timeFormats[i], s)
  IN IF r.ok \/ i = Len(timeFormats) THEN r ELSE tryTimeFormats(s, i + 1)

----------------------------------------------------------------------------
(* TypeCoercer: stringToVal and parseBool *)

\* a parseBool that does not trim the string
parseBool_NoTrim(s) ==
  CASE ToLower(s) \in {<<"t", "r", "u", "e">>, <<"1">>, <<"y", "e", "s">>, <<"o", "n">>} ->
         Parsed(TRUE)
    [] ToLower(s) \in {<<"f", "a", "l", "s", "e">>, <<"0">>, <<"n", "o">>, <<"o", "f", "f">>} ->
         Parsed(FALSE)
    [] OTHER -> Failed(FALSE, <<"invalid boolean value">>)

\* parseBool(s)
parseBool(s) ==
  LET w == ToLower(TrimSpace(s))
  IN CASE w \in {<<"t", "r", "u", "e">>, <<"1">>, <<"y", "e", "s">>, <<"o", "n">>} ->
            Parsed(TRUE)
       [] w \in {<<"f", "a", "l", "s", "e">>, <<"0">>, <<"n", "o">>, <<"o", "f", "f">>} ->
            Parsed(FALSE)
       [] OTHER -> Failed(FALSE, <<"invalid boolean value">>)

\* fmt.Errorf with %w: the message of the wrapping error
Wrap(prefix, err) == prefix \o err

Coerced(v) == [val |-> v, err |-> <<>>]

CoerceErr(ty, err) == [val |-> Zero(ty), err |-> err]

\* stringToVal(s, ty) from its second statement on: the conversion of a
\* source string that the first statement did not return for
convertString(s, ty) ==
  IF StrConvertibleTo(ty) THEN Coerced(s)
  ELSE
    CASE ty.kind = "string" -> Coerced(s)
      [] ty.kind \in {"int", "int8", "int32", "int64"} ->
           IF ty = durationTy
             THEN LET d == ParseDuration(s)
                  IN IF d.ok THEN Coerced(d.v)
                     ELSE CoerceErr(ty, Wrap(<<"invalid duration">>, d.err))
             ELSE LET i == ParseInt(s)
                  IN IF i.ok THEN Coerced(SetInt(ty.kind, i.v)) ELSE CoerceErr(ty, i.err)
      [] ty.kind \in {"uint", "uint8", "uint16", "uint32", "uint64"} ->
           LET u == ParseUint(s)
           IN IF u.ok THEN Coerced(SetUint(ty.kind, u.v)) ELSE CoerceErr(ty, u.err)
      [] ty.kind = "bool" ->
           LET b == parseBool(s)
           IN IF b.ok THEN Coerced(b.v) ELSE CoerceErr(ty, b.err)
      [] ty.kind \in {"float32", "float64"} ->
           LET f == ParseFloat(s)
           IN IF f.ok THEN Coerced(f.v) ELSE CoerceErr(ty, f.err)
      [] OTHER ->
           IF ty = timeTy
             THEN LET p == tryTimeFormats(s, 1)
                  IN IF p.ok THEN Coerced(p.v)
                     ELSE CoerceErr(ty, Wrap(<<"invalid time format">>, p.err))
             ELSE CoerceErr(ty, <<"unsupported type conversion", ty.kind>>)

\* stringToVal without its first statement (the empty source is converted
\* like any other)
stringToVal_NoEmptyCase(s, ty) == convertString(s, ty)

\* stringToVal(s, ty)
stringToVal(s, ty) ==
  IF s = <<>> THEN Coerced(Zero(ty)) ELSE convertString(s, ty)

----------------------------------------------------------------------------
(* Source strings: path parameters, query and header values, default     *)
(* literals.  Lit.L_x is the Go string x ("m" for "-", "p" for "+", "d"   *)
(* for ".", "c" for ":", "_" for a space).                                 *)

Lit ==
  [L_25 |-> <<"2", "5">>,
   L_0 |-> <<"0">>,
   L_1 |-> <<"1">>,
   L_m5 |-> <<"-", "5">>,
   L_p7 |-> <<"+", "7">>,
   L_300 |-> <<"3", "0", "0">>,
   L_256 |-> <<"2", "5", "6">>,
   L_m129 |-> <<"-", "1", "2", "9">>,
   L_127 |-> <<"1", "2", "7">>,
   L_128 |-> <<"1", "2", "8">>,
   L_m128 |-> <<"-", "1", "2", "8">>,
   L_255 |-> <<"2", "5", "5">>,
   L_007 |-> <<"0", "0", "7">>,
   L_32767 |-> <<"3", "2", "7", "6", "7">>,
   L_65536 |-> <<"6", "5", "5", "3", "6">>,
   L_99999999999999999999 |->
     <<"9", "9", "9", "9", "9", "9", "9", "9", "9", "9", "9", "9", "9", "9", "9", "9", "9", "9", "9", "9">>,
   L_abc |-> <<"a", "b", "c">>,
   L_12a |-> <<"1", "2", "a">>,
   L_John |-> <<"J", "o", "h", "n">>,
   L_true |-> <<"t", "r", "u", "e">>,
   L__True_ |-> <<" ", "T", "r", "u", "e", " ">>,
   L_yes |-> <<"y", "e", "s">>,
   L_on |-> <<"o", "n">>,
   L_off |-> <<"o", "f", "f">>,
   L_no |-> <<"n", "o">>,
   L_TRUE |-> <<"T", "R", "U", "E">>,
   L_false |-> <<"f", "a", "l", "s", "e">>,
   L_t |-> <<"t">>,
   L_maybe |-> <<"m", "a", "y", "b", "e">>,
   L__ |-> <<" ">>,
   L_Off_ |-> <<"O", "f", "f", " ">>,
   L_30s |-> <<"3", "0", "s">>,
   L_5m |-> <<"5", "m">>,
   L_1h30m |-> <<"1", "h", "3", "0", "m">>,
   L_30 |-> <<"3", "0">>,
   L_5x |-> <<"5", "x">>,
   L_1d5 |-> <<"1", ".", "5">>,
   L_0d0 |-> <<"0", ".", "0">>,
   L_m2d25 |-> <<"-", "2", ".", "2", "5">>,
   L_d |-> <<".">>,
   L_2023m01m01T00c00c00Z |->
     <<"2", "0", "2", "3", "-", "0", "1", "-", "0", "1", "T", "0", "0", ":", "0", "0", ":", "0", "0", "Z">>,
   L_2023m01m01T10c20c30p08c00 |->
     <<"2", "0", "2", "3", "-", "0", "1", "-", "0", "1", "T", "1", "0", ":", "2", "0", ":", "3", "0", "+", "0", "8", ":", "0", "0">>,
   L_2023m01m01T10c20c30d123Z |->
     <<"2", "0", "2", "3", "-", "0", "1", "-", "0", "1", "T", "1", "0", ":", "2", "0", ":", "3", "0", ".", "1", "2", "3", "Z">>,
   L_2023m01m01_10c20c30 |->
     <<"2", "0", "2", "3", "-", "0", "1", "-", "0", "1", " ", "1", "0", ":", "2", "0", ":", "3", "0">>,
   L_2023m01m01 |-> <<"2", "0", "2", "3", "-", "0", "1", "-", "0", "1">>,
   L_15c04c05 |-> <<"1", "5", ":", "0", "4", ":", "0", "5">>,
   L_2023m02m30 |-> <<"2", "0", "2", "3", "-", "0", "2", "-", "3", "0">>,
   L_0001m01m01T00c00c00Z |->
     <<"0", "0", "0", "1", "-", "0", "1", "-", "0", "1", "T", "0", "0", ":", "0", "0", ":", "0", "0", "Z">>,
   L_2023m01m01T5c04c05Z |->
     <<"2", "0", "2", "3", "-", "0", "1", "-", "0", "1", "T", "5", ":", "0", "4", ":", "0", "5", "Z">>]

\* the source strings stringToVal is applied to
Literals == {<<>>} \cup {Lit[k] : k \in DOMAIN Lit}

----------------------------------------------------------------------------
(* Struct fields (reflect.StructField) *)

\* A tag is <<>> when the field does not carry it and <<v>> when it does:
\* v is the key for path, form, header and json, the literal for default.
\* required says whether the field carries binding:"required".
NoTags ==
  [path |-> <<>>, form |-> <<>>, header |-> <<>>, json |-> <<>>,
   default |-> <<>>, required |-> FALSE]

\* an exported, named field
Field(name, type, tags) ==
  [name |-> name, exported |-> TRUE, anonymous |-> FALSE, type |-> type, tags |-> tags]

\* a field whose name starts with a lower-case letter
Unexported(name, type, tags) ==
  [name |-> name, exported |-> FALSE, anonymous |-> FALSE, type |-> type, tags |-> tags]

\* an embedded field: its name is the name of its type
Embedded(name, exported, type, tags) ==
  [name |-> name, exported |-> exported, anonymous |-> TRUE, type |-> type, tags |-> tags]

HasTag(f, tag) == f.tags[tag] # <<>>

----------------------------------------------------------------------------
(* The target types stringToVal is applied to *)

IntTy == Scalar("int")

BoolTy == Scalar("bool")

CoerceTypes ==
  {Scalar(k) : k \in IntKinds \cup UintKinds \cup FloatKinds \cup {"bool", "string"}}
  \cup {durationTy, timeTy, Named("string", "MyString"), Named("int64", "MyInt64"),
        PtrTo(IntTy), PtrTo(strTy), SliceOf(strTy), SliceOf(Scalar("uint8")),
        SliceOf(Scalar("int32")), Ty("map", "", <<strTy>>, <<>>, FALSE), anyTy,
        StructOf("Point", <<Field("X", IntTy, NoTags), Field("On", BoolTy, NoTags)>>)}

----------------------------------------------------------------------------
(* Requests (the gin.Context of one request) *)

\* A request is [method, ctype, params, query, header, body]:
\*   params, query, header: functions from the keys present to their value;
\*   body: [state, obj], state "json" (a well-formed JSON object, obj maps
\*   its keys to their values), "malformed" or "empty" (no bytes at all).
\* A JSON value is [t, n, s, b]: t is "null", "num", "str" or "bool".
JNull == [t |-> "null", n |-> 0, s |-> <<>>, b |-> FALSE]

JNum(n) == [t |-> "num", n |-> n, s |-> <<>>, b |-> FALSE]

JStr(s) == [t |-> "str", n |-> 0, s |-> s, b |-> FALSE]

JBool(b) == [t |-> "bool", n |-> 0, s |-> <<>>, b |-> b]

JsonBody(obj) == [state |-> "json", obj |-> obj]

MalformedBody == [state |-> "malformed", obj |-> <<>>]

EmptyBody == [state |-> "empty", obj |-> <<>>]

Has(map, key) == key \in DOMAIN map

\* gin.Context.Param(key): the path parameter, or "" when there is none
Param(q, key) == IF Has(q.params, key) THEN q.params[key] ELSE <<>>

\* strings.ToLower on the field names and keys of the model (the names and
\* keys not listed are already lower-case)
LowerName(n) ==
  CASE n = "ID" -> "id" [] n = "Name" -> "name" [] n = "Email" -> "email"
    [] n = "Age" -> "age" [] n = "Page" -> "page" [] n = "Token" -> "token"
    [] n = "UserID" -> "userid" [] n = "PageSize" -> "pagesize"
    [] n = "IsActive" -> "isactive" [] n = "AuthToken" -> "authtoken"
    [] n = "Tenant" -> "tenant" [] n = "Timeout" -> "timeout"
    [] n = "Count" -> "count" [] n = "Flag" -> "flag" [] n = "Score" -> "score"
    [] n = "Authorization" -> "authorization" [] n = "X-Tenant" -> "x-tenant"
    [] n = "Slug" -> "slug" [] n = "Ref" -> "ref" [] n = "Filter" -> "filter"
    [] n = "Max" -> "max" [] n = "Limits" -> "limits"
    [] OTHER -> n

\* textproto.CanonicalMIMEHeaderKey on the field names and keys of the model
CanonicalMIMEHeaderKey(n) ==
  CASE n = "ID" -> "Id" [] n = "UserID" -> "Userid" [] n = "PageSize" -> "Pagesize"
    [] n = "IsActive" -> "Isactive" [] n = "AuthToken" -> "Authtoken"
    [] n = "authorization" -> "Authorization" [] n = "x-tenant" -> "X-Tenant"
    [] OTHER -> n

----------------------------------------------------------------------------
(* gin's form mapping (binding/form_mapping.go), which BindQuery,          *)
(* ShouldBindHeader and the form binding of ShouldBind run on the record.  *)
(* What a step gives is handed to the step that follows as a parameter.    *)

Bound(v, set) == [val |-> v, set |-> set, err |-> <<>>]

BindErr(v, err) == [val |-> v, set |-> FALSE, err |-> err]

\* strconv.ParseBool
ParseBool(s) ==
  CASE s \in {<<"1">>, <<"t">>, <<"T">>, <<"t", "r", "u", "e">>, <<"T", "R", "U", "E">>,
              <<"T", "r", "u", "e">>} -> Parsed(TRUE)
    [] s \in {<<"0">>, <<"f">>, <<"F">>, <<"f", "a", "l", "s", "e">>,
              <<"F", "A", "L", "S", "E">>, <<"F", "a", "l", "s", "e">>} -> Parsed(FALSE)
    [] OTHER -> Failed(FALSE, <<"strconv.ParseBool", "invalid syntax">>)

\* whether i fits the signed (unsigned) integer kind; the integers of the
\* model stay below 2^31
FitsInt(kind, i) ==
  Bits(kind) >= 32 \/ (i >= 0 - 2^(Bits(kind) - 1) /\ i < 2^(Bits(kind) - 1))

FitsUint(kind, i) == Bits(kind) >= 32 \/ i < 2^(Bits(kind))

\* the field set from what a parser of strconv or time gave; fits tells
\* whether the parsed value is in the range of the kind
setParsed(p, fits) ==
  IF ~p.ok THEN BindErr(p.v, p.err)
  ELSE IF ~fits THEN BindErr(p.v, <<"strconv", "value out of range">>)
  ELSE Bound(p.v, TRUE)

setIntField(p, kind) == setParsed(p, ~p.ok \/ FitsInt(kind, p.v))

setUintField(p, kind) == setParsed(p, ~p.ok \/ FitsUint(kind, p.v))

\* setWithProperType(val, value, field): gin's conversion of one form or
\* header value to the kinds the fields of the model have
setWithProperType(s, ty) ==
  CASE ty = durationTy -> setParsed(ParseDuration(s), TRUE)
    [] ty # durationTy /\ ty.kind \in IntKinds ->
         setIntField(ParseInt(IF s = <<>> THEN <<"0">> ELSE s), ty.kind)
    [] ty.kind \in UintKinds ->
         setUintField(ParseUint(IF s = <<>> THEN <<"0">> ELSE s), ty.kind)
    [] ty.kind = "bool" ->
         setParsed(ParseBool(IF s = <<>> THEN <<"f", "a", "l", "s", "e">> ELSE s), TRUE)
    [] ty.kind \in FloatKinds ->
         setParsed(ParseFloat(IF s = <<>> THEN <<"0", ".", "0">> ELSE s), TRUE)
    [] ty.kind = "string" -> Bound(s, TRUE)
    [] OTHER -> BindErr(Zero(ty), <<"unknown type">>)

\* the key tryToSetValue looks a field up by: the name in the tag, else the
\* name of the field; headers are looked up by their canonical key
SourceKey(f, tag) ==
  IF tag = "header"
    THEN CanonicalMIMEHeaderKey(IF HasTag(f, tag) THEN f.tags[tag][1] ELSE f.name)
  ELSE IF HasTag(f, tag) THEN f.tags[tag][1] ELSE f.name

\* the field after setByForm: it keeps its value v when the value of the
\* source cannot be converted
setByForm(v, r) == IF r.err # <<>> THEN BindErr(v, r.err) ELSE r

\* tryToSetValue and setByForm on a field that is no slice
tryToSetValue(f, ty, v, src, tag) ==
  IF ~Has(src, SourceKey(f, tag)) THEN Bound(v, FALSE)
  ELSE setByForm(v, setWithProperType(src[SourceKey(f, tag)], ty))

\* the least index of a non-empty set of field indices
First(S) == CHOOSE i \in S : \A j \in S : i <= j

\* the type a field's type points to, or the type itself; the value a
\* field's pointer points to (a new value when it is nil), or the value
Pointee(ty) == IF ty.kind = "ptr" THEN ty.elem[1] ELSE ty

Deref(ty, v) ==
  IF ty.kind # "ptr" THEN v ELSE IF v = <<>> THEN Zero(ty.elem[1]) ELSE v[1]

\* the index a loop over the fields ends at: the first field whose result
\* is an error, or past the last field
LoopEnd(fr) ==
  IF \A i \in DOMAIN fr : fr[i].err = <<>> THEN Len(fr) + 1
  ELSE First({i \in DOMAIN fr : fr[i].err # <<>>})

\* a loop over the fields of the struct v, fr[i] being what its body gives
\* for field i: the fields before the end hold their results
FieldLoop(v, fr) ==
  [val |-> [i \in DOMAIN fr |-> IF i < LoopEnd(fr) THEN fr[i].val ELSE v[i]],
   set |-> \E i \in DOMAIN fr : i < LoopEnd(fr) /\ fr[i].set,
   err |-> IF LoopEnd(fr) > Len(fr) THEN <<>> ELSE fr[LoopEnd(fr)].err]

\* the end of mapping on a field: r is what setting the field, or mapping
\* its fields, gave.  A pointer that was nil stays nil unless something
\* was set behind it.
mapped(f, fv, r) ==
  IF r.err # <<>> THEN BindErr(fv, r.err)
  ELSE IF f.type.kind # "ptr" THEN r
  ELSE IF fv = <<>> /\ ~r.set THEN Bound(fv, FALSE)
  ELSE Bound(<<r.val>>, r.set)

\* mapping: the field was tried (try); a struct that was not set is mapped
\* field by field (sub)
triedField(f, fv, try, sub) ==
  mapped(f, fv, IF try.err # <<>> \/ try.set \/ Pointee(f.type).kind # "struct"
                  THEN try ELSE sub)

\* mapping(value, field, setter, tag) on the field f, whose value is fv;
\* sub is what mapping its fields gives when it is a struct.  A field that
\* is not exported is skipped unless it is embedded; a pointer field is
\* mapped through a new value of what it points to; an embedded struct is
\* not tried by its own name.
mapField(f, fv, src, tag, sub) ==
  IF (~f.exported /\ ~f.anonymous) \/ (HasTag(f, tag) /\ f.tags[tag][1] = "-")
    THEN Bound(fv, FALSE)
  ELSE triedField(f, fv,
                  IF Pointee(f.type).kind # "struct" \/ ~f.anonymous
                    THEN tryToSetValue(f, Pointee(f.type), Deref(f.type, fv), src, tag)
                  ELSE Bound(Deref(f.type, fv), FALSE),
                  sub)

RECURSIVE mapping(_, _, _, _)

\* mapping(value, field, setter, tag) on a struct v of type ty: the loop
\* over its fields.  (The records of the model hold pointers of one level.)
mapping(ty, v, src, tag) ==
  FieldLoop(v, [i \in 1..Len(ty.fields) |->
                  mapField(ty.fields[i], v[i], src, tag,
                           IF Pointee(ty.fields[i].type).kind = "struct"
                             THEN mapping(Pointee(ty.fields[i].type),
                                          Deref(ty.fields[i].type, v[i]), src, tag)
                           ELSE Bound(v[i], FALSE))])

\* a test for zero that every value passes
IsZero_Always(ty, v) == TRUE

\* reflect.Value.IsZero
IsZero(ty, v) == v = Zero(ty)

\* the first of the errors of the fields, fe[i] being the error of field i
FirstError(fe) ==
  IF \A i \in DOMAIN fe : fe[i] = <<>> THEN <<>>
  ELSE fe[First({i \in DOMAIN fe : fe[i] # <<>>})]

RECURSIVE validateStruct(_, _)

\* gin's binding.Validator (validate(obj) at the end of every gin binding):
\* the first field that is tagged binding:"required" and holds its zero
\* value is an error; embedded and nested structs are validated too
validateStruct(ty, v) ==
  FirstError([i \in 1..Len(ty.fields) |->
    IF ~ty.fields[i].exported /\ ~ty.fields[i].anonymous THEN <<>>
    ELSE IF ty.fields[i].tags.required /\ IsZero(ty.fields[i].type, v[i])
      THEN <<"Field validation failed on the 'required' tag", ty.fields[i].name>>
    ELSE IF Pointee(ty.fields[i].type).kind # "struct"
            \/ Pointee(ty.fields[i].type) = timeTy
            \/ (ty.fields[i].type.kind = "ptr" /\ v[i] = <<>>) THEN <<>>
    ELSE validateStruct(Pointee(ty.fields[i].type), Deref(ty.fields[i].type, v[i]))])

----------------------------------------------------------------------------
(* encoding/json, which gin's JSON binding runs on the record *)

\* the name a field is known by in JSON: the name in its json tag, else
\* the name of the field
jsonName(f) == IF HasTag(f, "json") THEN f.tags.json[1] ELSE f.name

\* the key of the object that addresses the field: the names are matched
\* exactly or, failing that, without regard to case.  (No object of the
\* model holds two keys that differ in case only.)
jsonHas(f, obj) == \E k \in DOMAIN obj : LowerName(k) = LowerName(jsonName(f))

jsonKey(f, obj) == CHOOSE k \in DOMAIN obj : LowerName(k) = LowerName(jsonName(f))

UnmarshalTypeError(jv, ty) == <<"json: cannot unmarshal", jv.t, "into Go value of type", ty.name>>

RECURSIVE IntDigits(_)

\* the decimal digits of a natural number
IntDigits(n) ==
  IF n < 10 THEN <<CHOOSE c \in Digits : DigitVal(c) = n>>
  ELSE Append(IntDigits(n \div 10), CHOOSE c \in Digits : DigitVal(c) = n % 10)

\* the pointer to what was stored behind it
jsonPtr(r) == [r EXCEPT !.val = <<r.val>>]

\* time.Time.UnmarshalJSON
jsonTime(v, p) == IF p.ok THEN Bound(p.v, TRUE) ELSE BindErr(v, p.err)

RECURSIVE jsonSet(_, _, _)

\* decode.go, literalStore/indirect: store the JSON value jv in a value v
\* of type ty
jsonSet(ty, v, jv) ==
  IF jv.t = "null"
    THEN IF ty.kind \in {"ptr", "slice", "map", "interface"} THEN Bound(<<>>, TRUE)
         ELSE Bound(v, TRUE)
  ELSE IF ty.kind = "ptr" THEN jsonPtr(jsonSet(ty.elem[1], Deref(ty, v), jv))
  ELSE CASE jv.t = "num" /\ ty.kind \in IntKinds ->
              IF FitsInt(ty.kind, jv.n) THEN Bound(jv.n, TRUE)
              ELSE BindErr(v, UnmarshalTypeError(jv, ty))
         [] jv.t = "num" /\ ty.kind \in UintKinds ->
              IF jv.n >= 0 /\ FitsUint(ty.kind, jv.n) THEN Bound(jv.n, TRUE)
              ELSE BindErr(v, UnmarshalTypeError(jv, ty))
         [] jv.t = "num" /\ ty.kind \in FloatKinds ->
              Bound([neg |-> jv.n < 0, m |-> IntDigits(IF jv.n < 0 THEN 0 - jv.n ELSE jv.n),
                     e |-> 0], TRUE)
         [] jv.t = "str" /\ ty.kind = "string" -> Bound(jv.s, TRUE)
         [] jv.t = "str" /\ ty = timeTy -> jsonTime(v, TimeParse(RFC3339, jv.s))
         [] jv.t = "bool" /\ ty.kind = "bool" -> Bound(jv.b, TRUE)
         [] OTHER -> BindErr(v, UnmarshalTypeError(jv, ty))

\* whether encoding/json flattens the field: an embedded struct, or pointer
\* to a struct, without a json tag
jsonFlattened(f) ==
  /\ f.anonymous
  /\ ~HasTag(f, "json")
  /\ Pointee(f.type).kind = "struct"

\* the members stored in a struct: a member that does not fit its field is
\* remembered as the error and the other members are still stored
jsonLoop(fr) ==
  [val |-> [i \in DOMAIN fr |-> fr[i].val],
   set |-> \E i \in DOMAIN fr : fr[i].set \/ fr[i].err # <<>>,
   err |-> FirstError([i \in DOMAIN fr |-> fr[i].err])]

\* the embedded struct after its fields were stored (e): an embedded
\* pointer that was nil is allocated when a member addressed a field
jsonEmbedded(f, fv, e) ==
  IF f.type.kind # "ptr" THEN e
  ELSE IF fv = <<>> /\ ~e.set THEN Bound(fv, FALSE)
  ELSE jsonPtr(e)

RECURSIVE jsonObject(_, _, _)

\* decode.go, object: store the members of obj in the fields of the struct.
\* The fields of an embedded struct are addressed as fields of the struct
\* itself, also when the embedded struct type is not exported.  (No record
\* of the model has two fields of one name.)
jsonObject(ty, v, obj) ==
  jsonLoop([i \in 1..Len(ty.fields) |->
    IF HasTag(ty.fields[i], "json") /\ ty.fields[i].tags.json[1] = "-"
      THEN Bound(v[i], FALSE)
    ELSE IF jsonFlattened(ty.fields[i])
      THEN jsonEmbedded(ty.fields[i], v[i],
                        jsonObject(Pointee(ty.fields[i].type),
                                   Deref(ty.fields[i].type, v[i]), obj))
    ELSE IF ~ty.fields[i].exported \/ ~jsonHas(ty.fields[i], obj) THEN Bound(v[i], FALSE)
    ELSE jsonSet(ty.fields[i].type, v[i], obj[jsonKey(ty.fields[i], obj)])])

\* json.Decoder.Decode on the body of the request
decodeJSON(ty, v, body) ==
  CASE body.state = "empty" -> BindErr(v, <<"EOF">>)
    [] body.state = "malformed" -> BindErr(v, <<"invalid character">>)
    [] OTHER -> jsonObject(ty, v, body.obj)

----------------------------------------------------------------------------
(* The gin.Context bindings bindingFormValue calls *)

\* gin's binding.Default(method, contentType), for the content types of the
\* model: "application/json" and "" (none)
UsesJSON(q) == q.method # "GET" /\ q.ctype = "application/json"

\* the end of a gin binding: the record was mapped, e is what validating
\* it gave
validated(r, e) == IF e # <<>> THEN BindErr(r.val, e) ELSE Bound(r.val, TRUE)

\* a gin binding: map the source onto the record, then validate it
ginBind(r, ty) == IF r.err # <<>> THEN r ELSE validated(r, validateStruct(ty, r.val))

\* ctx.BindQuery(obj): the query binding; on failure gin also aborts the
\* request with status 400 (MustBindWith)
BindQuery(q, ty, v) == ginBind(mapping(ty, v, q.query, "form"), ty)

\* ctx.ShouldBindHeader(obj)
ShouldBindHeader(q, ty, v) == ginBind(mapping(ty, v, q.header, "header"), ty)

\* ctx.ShouldBind(obj): the JSON binding, or the form binding on the
\* request's form values (the query: no body of the model is a form)
ShouldBind(q, ty, v) ==
  IF UsesJSON(q) THEN ginBind(decodeJSON(ty, v, q.body), ty)
  ELSE ginBind(mapping(ty, v, q.query, "form"), ty)

----------------------------------------------------------------------------
(* bindingFormValue, applyDefaultValues, setDefaultValue *)

\* a nil pointer that is left nil
newVal_KeepsNil(v, r) == [val |-> v, err |-> r.err]

\* binder.go 363-369: the nil pointer after the default was set behind it
newVal(v, r) ==
  IF r.err # <<>> THEN [val |-> v, err |-> r.err] ELSE [val |-> <<r.val>>, err |-> <<>>]

\* binder.go 375-380: the field v after stringToVal gave c
convertedVal(v, c, fieldName) ==
  IF c.err # <<>>
    THEN [val |-> v,
          err |-> Wrap(<<"failed to convert default value for field", fieldName>>, c.err)]
  ELSE [val |-> c.val, err |-> <<>>]

RECURSIVE setDefaultValue(_, _, _, _)

\* binder.go, setDefaultValue: the value of the field after the default
\* was set, or the error
setDefaultValue(ty, v, defaultValue, fieldName) ==
  IF ty.kind = "ptr"
    THEN IF v = <<>>
           THEN newVal(v, setDefaultValue(ty.elem[1], Zero(ty.elem[1]), defaultValue, fieldName))
         ELSE [val |-> v, err |-> <<>>]
  ELSE convertedVal(v, stringToVal(defaultValue, ty), fieldName)

Defaulted(v) == [val |-> v, err |-> <<>>, panic |-> FALSE]

\* the index the loop of applyDefaultValues ends at: the first field whose
\* result is an error or a panic, or past the last field
DefaultLoopEnd(fr) ==
  IF \A i \in DOMAIN fr : ~fr[i].panic /\ fr[i].err = <<>> THEN Len(fr) + 1
  ELSE First({i \in DOMAIN fr : fr[i].panic \/ fr[i].err # <<>>})

\* a loop that returns after the first field it has changed
DefaultLoop_OneAtATime(v, fr) ==
  [val |-> [i \in DOMAIN fr |->
              IF i < DefaultLoopEnd(fr) /\ \A j \in 1..(i - 1) : fr[j].val = v[j]
                THEN fr[i].val ELSE v[i]],
   err |-> IF DefaultLoopEnd(fr) > Len(fr) THEN <<>> ELSE fr[DefaultLoopEnd(fr)].err,
   panic |-> DefaultLoopEnd(fr) <= Len(fr) /\ fr[DefaultLoopEnd(fr)].panic]

\* the loop of applyDefaultValues over the fields of the struct v, fr[i]
\* being what its body gives for field i
DefaultLoop(v, fr) ==
  [val |-> [i \in DOMAIN fr |-> IF i < DefaultLoopEnd(fr) THEN fr[i].val ELSE v[i]],
   err |-> IF DefaultLoopEnd(fr) > Len(fr) THEN <<>> ELSE fr[DefaultLoopEnd(fr)].err,
   panic |-> DefaultLoopEnd(fr) <= Len(fr) /\ fr[DefaultLoopEnd(fr)].panic]

\* binder.go 326-330: the embedded field after applyDefaultValues gave emb
\* for the struct it embeds
embeddedDefaults(sf, fv, emb) ==
  IF emb.panic THEN [val |-> fv, err |-> <<>>, panic |-> TRUE]
  ELSE IF emb.err # <<>>
    THEN [val |-> fv, err |-> Wrap(<<"embedded struct", sf.name>>, emb.err), panic |-> FALSE]
  ELSE Defaulted(IF sf.type.kind = "ptr" THEN <<emb.val>> ELSE emb.val)

\* a default applier that leaves the field as it is when its default
\* cannot be converted
fieldDefault_SkipsBadDefault(sf, fv, set) ==
  IF set.err # <<>> THEN Defaulted(fv) ELSE Defaulted(set.val)

\* binder.go 345-348: the field after setDefaultValue gave set
fieldDefault(sf, fv, set) ==
  IF set.err # <<>>
    THEN [val |-> fv, err |-> Wrap(<<"field", sf.name>>, set.err), panic |-> FALSE]
  ELSE Defaulted(set.val)

\* a loop body that takes a pointer to a zero value for an absent value and
\* replaces it by a pointer to the default
defaultField_ZeroPointeeAbsent(sf, fv, emb) ==
  IF ~sf.exported THEN Defaulted(fv)
  ELSE IF sf.anonymous
    THEN IF sf.type.kind = "ptr" /\ fv = <<>> THEN Defaulted(fv)
         ELSE embeddedDefaults(sf, fv, emb)
  ELSE IF ~HasTag(sf, "default") THEN Defaulted(fv)
  ELSE IF sf.type.kind = "ptr" /\ fv # <<>>
    THEN IF fv[1] # Zero(sf.type.elem[1]) THEN Defaulted(fv)
         ELSE fieldDefault(sf, fv, setDefaultValue(sf.type, <<>>, sf.tags.default[1], sf.name))
  ELSE IF ~IsZero(sf.type, fv) THEN Defaulted(fv)
  ELSE fieldDefault(sf, fv, setDefaultValue(sf.type, fv, sf.tags.default[1], sf.name))

\* binder.go 305-348, the body of the loop of applyDefaultValues for the
\* field sf, whose value is fv; emb is what applyDefaultValues gives for
\* what it embeds
defaultField(sf, fv, emb) ==
  IF ~sf.exported THEN Defaulted(fv)
  ELSE IF sf.anonymous
    THEN IF sf.type.kind = "ptr" /\ fv = <<>> THEN Defaulted(fv)
         ELSE embeddedDefaults(sf, fv, emb)
  ELSE IF ~HasTag(sf, "default") THEN Defaulted(fv)
  ELSE IF ~IsZero(sf.type, fv) THEN Defaulted(fv)
  ELSE fieldDefault(sf, fv, setDefaultValue(sf.type, fv, sf.tags.default[1], sf.name))

RECURSIVE applyDefaultValues(_, _)

\* binder.go, applyDefaultValues on the value v of type ty; reflect's
\* NumField panics when ty is no struct
applyDefaultValues(ty, v) ==
  IF ty.kind # "struct" THEN [val |-> v, err |-> <<>>, panic |-> TRUE]
  ELSE DefaultLoop(v, [i \in 1..Len(ty.fields) |->
                         defaultField(ty.fields[i], v[i],
                                      applyDefaultValues(Pointee(ty.fields[i].type),
                                                         Deref(ty.fields[i].type, v[i])))])

\* a loop that goes on after an error and reports the last one
pathSet_LastError(ty, v, sfv) ==
  [val |-> [i \in DOMAIN sfv |-> IF sfv[i].err = <<>> THEN sfv[i].val ELSE v[i]],
   err |-> IF LoopEnd(sfv) > Len(sfv) THEN <<>>
           ELSE Wrap(<<"failed to parse path parameter",
                       ty.fields[CHOOSE i \in DOMAIN sfv :
                                   /\ sfv[i].err # <<>>
                                   /\ \A j \in DOMAIN sfv : sfv[j].err # <<>> => j <= i].tags.path[1]>>,
                     sfv[LoopEnd(sfv)].err)]

\* binder.go 176-182: the loop of bindingFormValue over the fields of the
\* struct v, sfv[i] being what stringToVal gives for field i; the error
\* names the path key of the field the loop ends at
pathSet(ty, v, sfv) ==
  [val |-> [i \in DOMAIN sfv |-> IF i < LoopEnd(sfv) THEN sfv[i].val ELSE v[i]],
   err |-> IF LoopEnd(sfv) > Len(sfv) THEN <<>>
           ELSE Wrap(<<"failed to parse path parameter",
                       ty.fields[LoopEnd(sfv)].tags.path[1]>>, sfv[LoopEnd(sfv)].err)]

\* binder.go 169-191, the part of the loop that sets the fields tagged
\* `path`
pathLoop(q, ty, v) ==
  pathSet(ty, v, [i \in 1..Len(ty.fields) |->
                    IF ~ty.fields[i].exported \/ ~HasTag(ty.fields[i], "path")
                      THEN Coerced(v[i])
                    ELSE stringToVal(Param(q, ty.fields[i].tags.path[1]), ty.fields[i].type)])

\* binder.go 169-191, the part of the loop that counts the tags
TagsNum(ty, tag) ==
  Cardinality({i \in 1..Len(ty.fields) : ty.fields[i].exported /\ HasTag(ty.fields[i], tag)})

\* What bindingFormValue did: the value and error it returned (panic: it
\* did not return), whether gin aborted the request, the stages that ran
\* and the record as the sources left it (before the defaults).
Decoded(val, err, panic, aborted, ran, sourced) ==
  [val |-> val, err |-> err, panic |-> panic, aborted |-> aborted, ran |-> ran,
   sourced |-> sourced]

\* the stage has run in the decode d
Ran(d, stage) == \E k \in 1..Len(d.ran) : d.ran[k] = stage

\* binder.go 208-214: applyDefaultValues gave dr for the record the
\* sources left as sourced; ran are the stages run before, in order
afterDefaults(sourced, dr, ran) ==
  Decoded(dr.val, dr.err, dr.panic, FALSE, Append(ran, "defaults"), sourced)

\* a decoder that returns the record as the sources left it
afterBody_NoDefaults(ty, br, ran) ==
  Decoded(br.val, br.err, FALSE, FALSE, ran, br.val)

\* binder.go 205-214: ShouldBind gave br
afterBody(ty, br, ran) ==
  IF br.err # <<>> THEN Decoded(br.val, br.err, FALSE, FALSE, ran, br.val)
  ELSE afterDefaults(br.val, applyDefaultValues(ty, br.val), ran)

\* a decoder that goes to the body only for a record with a json tag
afterHeader_BodyIfTagged(q, ty, hr, ran) ==
  IF hr.err # <<>> THEN Decoded(hr.val, hr.err, FALSE, FALSE, ran, hr.val)
  ELSE afterBody(ty,
                 IF TagsNum(ty, "json") > 0 THEN ShouldBind(q, ty, hr.val)
                 ELSE Bound(hr.val, FALSE),
                 IF TagsNum(ty, "json") > 0 THEN Append(ran, "body") ELSE ran)

\* binder.go 199-205: the header stage gave hr
afterHeader(q, ty, hr, ran) ==
  IF hr.err # <<>> THEN Decoded(hr.val, hr.err, FALSE, FALSE, ran, hr.val)
  ELSE afterBody(ty, ShouldBind(q, ty, hr.val), Append(ran, "body"))

\* binder.go 193-203: the query stage gave qr
afterQuery(q, ty, qr, ran) ==
  IF qr.err # <<>> THEN Decoded(qr.val, qr.err, FALSE, TRUE, ran, qr.val)
  ELSE afterHeader(q, ty,
                   IF TagsNum(ty, "header") > 0 THEN ShouldBindHeader(q, ty, qr.val)
                   ELSE Bound(qr.val, FALSE),
                   IF TagsNum(ty, "header") > 0 THEN Append(ran, "header") ELSE ran)

\* binder.go 169-197: the loop over the fields gave pr
afterPath(q, ty, pr) ==
  IF pr.err # <<>> THEN Decoded(pr.val, pr.err, FALSE, FALSE, <<"path">>, pr.val)
  ELSE afterQuery(q, ty,
                  IF TagsNum(ty, "form") > 0 THEN BindQuery(q, ty, pr.val)
                  ELSE Bound(pr.val, FALSE),
                  IF TagsNum(ty, "form") > 0 THEN <<"path", "query">> ELSE <<"path">>)

\* a pointer form that wraps the error of the record form
addrOf_WrapsError(r) ==
  IF r.err # <<>> THEN [r EXCEPT !.val = <<>>, !.err = Wrap(<<"pointer">>, r.err)]
  ELSE IF r.panic THEN [r EXCEPT !.val = <<>>]
  ELSE [r EXCEPT !.val = <<r.val>>]

\* binder.go 155-161: the pointer to the record bindingFormValue gave
addrOf(r) == IF r.err # <<>> \/ r.panic THEN [r EXCEPT !.val = <<>>] ELSE [r EXCEPT !.val = <<r.val>>]

RECURSIVE bindingFormValue(_, _)

\* binder.go 153-215
bindingFormValue(q, ty) ==
  IF ty.kind = "ptr" THEN addrOf(bindingFormValue(q, ty.elem[1]))
  ELSE afterPath(q, ty, pathLoop(q, ty, Zero(ty)))

----------------------------------------------------------------------------
(* The record types and the requests the decoder is checked on *)

Tags(pathTag, formTag, headerTag, jsonTag, defaultTag) ==
  [path |-> pathTag, form |-> formTag, header |-> headerTag, json |-> jsonTag,
   default |-> defaultTag, required |-> FALSE]

Json(name) == Tags(<<>>, <<>>, <<>>, <<name>>, <<>>)

JsonDefault(name, lit) == Tags(<<>>, <<>>, <<>>, <<name>>, <<lit>>)

\* default_test.go, TestMixedBinding
MixedRequest ==
  StructOf("MixedRequest",
    <<Field("UserID", IntTy, Tags(<<"user_id">>, <<>>, <<>>, <<>>, <<>>)),
      Field("Page", IntTy, Tags(<<>>, <<"page">>, <<>>, <<>>, <<>>)),
      Field("AuthToken", strTy, Tags(<<>>, <<>>, <<"Authorization">>, <<>>, <<>>)),
      Field("Name", strTy, Json("name")),
      Field("Email", strTy, Json("email"))>>)

\* default_test.go, TestDefaultValuesWithMixedFields and README.md,
\* "Default Values with Mixed Types"
DefaultsRequest ==
  StructOf("DefaultsRequest",
    <<Field("Name", strTy, JsonDefault("name", Lit.L_John)),
      Field("Age", IntTy, JsonDefault("age", Lit.L_25)),
      Field("IsActive", BoolTy, JsonDefault("is_active", Lit.L_true)),
      Field("Timeout", durationTy, JsonDefault("timeout", Lit.L_30s)),
      Field("Email", strTy, Json("email"))>>)

\* default_test.go, TestDefaultValuesWithPointerFields
PointerRequest ==
  StructOf("PointerRequest",
    <<Field("Name", PtrTo(strTy), JsonDefault("name", Lit.L_John)),
      Field("Age", PtrTo(IntTy), JsonDefault("age", Lit.L_25)),
      Field("IsActive", PtrTo(BoolTy), JsonDefault("is_active", Lit.L_true)),
      Field("Score", PtrTo(IntTy), Json("score"))>>)

\* README.md, "Embedded Structs"
Pagination ==
  StructOf("Pagination",
    <<Field("Page", IntTy, Tags(<<>>, <<"page">>, <<>>, <<>>, <<Lit.L_1>>)),
      Field("PageSize", IntTy, Tags(<<>>, <<"page_size">>, <<>>, <<>>, <<Lit.L_25>>))>>)

SearchRequest ==
  StructOf("SearchRequest",
    <<Embedded("Pagination", TRUE, Pagination, NoTags),
      Field("Query", strTy, Tags(<<>>, <<"query">>, <<>>, <<>>, <<>>))>>)

\* default_test.go, TestDefaultValuesWithEmbeddedStructs
BaseRequest ==
  StructOf("BaseRequest",
    <<Field("Page", IntTy, JsonDefault("page", Lit.L_1)),
      Field("PageSize", IntTy, JsonDefault("page_size", Lit.L_25))>>)

EmbeddedRequest ==
  StructOf("EmbeddedRequest",
    <<Embedded("BaseRequest", TRUE, BaseRequest, NoTags),
      Field("Name", strTy, JsonDefault("name", Lit.L_John))>>)

\* an embedded record whose fields are bound from the path, the query and
\* a header, in a record that has no such tag itself
Resource ==
  StructOf("Resource",
    <<Field("ID", IntTy, Tags(<<"id">>, <<>>, <<>>, <<>>, <<>>)),
      Field("Page", IntTy, Tags(<<>>, <<"page">>, <<>>, <<>>, <<Lit.L_1>>)),
      Field("Tenant", strTy, Tags(<<>>, <<>>, <<"X-Tenant">>, <<>>, <<>>))>>)

ResourceRequest ==
  StructOf("ResourceRequest",
    <<Embedded("Resource", TRUE, Resource, NoTags),
      Field("Name", strTy, Json("name"))>>)

\* a record embedded through a pointer
PointerEmbeddedRequest ==
  StructOf("PointerEmbeddedRequest",
    <<Embedded("BaseRequest", TRUE, PtrTo(BaseRequest), NoTags),
      Field("Name", strTy, JsonDefault("name", Lit.L_John))>>)

\* edge_cases_test.go, TestUnexportedFields, with every tag on the
\* unexported fields
UnexportedRequest ==
  StructOf("UnexportedRequest",
    <<Field("Name", strTy, Json("name")),
      Unexported("age", IntTy, Tags(<<"id">>, <<"page">>, <<>>, <<"age">>, <<Lit.L_25>>)),
      Unexported("token", strTy, Tags(<<>>, <<>>, <<"Authorization">>, <<"token">>, <<Lit.L_abc>>)),
      Field("Page", IntTy, Tags(<<>>, <<"page">>, <<>>, <<>>, <<>>)),
      Field("Tenant", strTy, Tags(<<>>, <<>>, <<"X-Tenant">>, <<>>, <<>>))>>)

\* a record that embeds a struct type that is not exported
audit == StructOf("audit", <<Field("ID", IntTy, JsonDefault("id", Lit.L_25))>>)

AuditedRequest ==
  StructOf("AuditedRequest",
    <<Embedded("audit", FALSE, audit, NoTags),
      Field("Name", strTy, Json("name"))>>)

\* a record that embeds a named type that is no struct
Token == Named("string", "Token")

TokenRequest ==
  StructOf("TokenRequest",
    <<Embedded("Token", TRUE, Token, NoTags),
      Field("Name", strTy, Json("name"))>>)

\* a default that cannot be coerced to the type of its field
BadDefaultRequest ==
  StructOf("BadDefaultRequest",
    <<Field("Name", strTy, Json("name")),
      Field("Age", IntTy, JsonDefault("age", Lit.L_abc))>>)

\* a default that cannot be coerced, in an embedded record
Limits == StructOf("Limits", <<Field("Max", IntTy, JsonDefault("max", Lit.L_abc))>>)

NestedBadDefaultRequest ==
  StructOf("NestedBadDefaultRequest",
    <<Embedded("Limits", TRUE, Limits, NoTags),
      Field("Name", strTy, Json("name"))>>)

\* a body field gin's validator requires, next to a query field
RequiredRequest ==
  StructOf("RequiredRequest",
    <<Field("Name", strTy, [Json("name") EXCEPT !.required = TRUE]),
      Field("Page", IntTy, Tags(<<>>, <<"page">>, <<>>, <<>>, <<>>)),
      Field("Age", IntTy, JsonDefault("age", Lit.L_25))>>)

\* defaults on fields that are bound from the path, the query and a header
SourcedDefaultsRequest ==
  StructOf("SourcedDefaultsRequest",
    <<Field("ID", IntTy, Tags(<<"id">>, <<>>, <<>>, <<>>, <<Lit.L_25>>)),
      Field("Page", IntTy, Tags(<<>>, <<"page">>, <<>>, <<>>, <<Lit.L_1>>)),
      Field("Tenant", strTy, Tags(<<>>, <<>>, <<"X-Tenant">>, <<>>, <<Lit.L_John>>)),
      Field("Flag", PtrTo(BoolTy), Tags(<<>>, <<"flag">>, <<>>, <<>>, <<Lit.L_true>>))>>)

\* a record with a path tag on a field whose type stringToVal does not
\* convert to
FilterRequest ==
  StructOf("FilterRequest",
    <<Field("Filter", Ty("map", "", <<strTy>>, <<>>, FALSE),
            Tags(<<"id">>, <<>>, <<>>, <<>>, <<>>)),
      Field("Name", strTy, Json("name"))>>)

\* a record with several path-tagged fields, as in default_test.go,
\* TestPathParameterBinding
PathRequest ==
  StructOf("PathRequest",
    <<Field("Slug", strTy, Tags(<<"id">>, <<>>, <<>>, <<>>, <<>>)),
      Field("UserID", IntTy, Tags(<<"user_id">>, <<>>, <<>>, <<>>, <<>>)),
      Field("Ref", IntTy, Tags(<<"id">>, <<>>, <<>>, <<>>, <<>>)),
      Field("Name", strTy, JsonDefault("name", Lit.L_John))>>)

\* a record with an optional path parameter: a pointer field with a path
\* tag (README.md, "Supported Data Types": pointers to all types)
OptionalRequest ==
  StructOf("OptionalRequest",
    <<Field("ID", PtrTo(IntTy), Tags(<<"id">>, <<>>, <<>>, <<>>, <<>>)),
      Field("Name", strTy, Json("name"))>>)

RecordTypes ==
  {OptionalRequest, PathRequest, MixedRequest, DefaultsRequest, PointerRequest, SearchRequest, EmbeddedRequest,
   ResourceRequest, PointerEmbeddedRequest, UnexportedRequest, AuditedRequest,
   TokenRequest, BadDefaultRequest, RequiredRequest, SourcedDefaultsRequest}

RECURSIVE Flat(_)

\* the fields of an embedded struct declared directly on the record
Flat(fields) ==
  IF fields = <<>> THEN <<>>
  ELSE LET f == Head(fields)
       IN (IF f.anonymous /\ f.type.kind = "struct" THEN Flat(f.type.fields) ELSE <<f>>)
          \o Flat(Tail(fields))

Flattened(ty) == StructOf(ty.name, Flat(ty.fields))

RECURSIVE FlatValue(_, _)

\* the values of the fields of Flat(fields), read from the value v of a
\* struct with these fields
FlatValue(fields, v) ==
  IF fields = <<>> THEN <<>>
  ELSE LET f == Head(fields)
       IN (IF f.anonymous /\ f.type.kind = "struct" THEN FlatValue(f.type.fields, Head(v))
           ELSE <<Head(v)>>)
          \o FlatValue(Tail(fields), Tail(v))

\* the method and the content type of a request
Method(method, ctype) == [method |-> method, ctype |-> ctype]

Methods == {Method("GET", ""), Method("POST", "application/json"), Method("POST", "")}

ParamSets ==
  {<<>>,
   "id" :> Lit.L_25 @@ "user_id" :> Lit.L_300,
   "id" :> Lit.L_abc @@ "user_id" :> Lit.L_abc}

QuerySets ==
  {<<>>,
   "page" :> Lit.L_300 @@ "query" :> Lit.L_John,
   "page" :> Lit.L_abc,
   "page" :> Lit.L_0 @@ "Name" :> Lit.L_abc @@ "age" :> Lit.L_1}

HeaderSets ==
  {<<>>,
   "Authorization" :> Lit.L_John @@ "X-Tenant" :> Lit.L_abc @@ "Name" :> Lit.L_true}

Bodies ==
  {EmptyBody, MalformedBody, JsonBody(<<>>),
   JsonBody("name" :> JStr(Lit.L_John) @@ "age" :> JNum(30) @@ "is_active" :> JBool(FALSE)
            @@ "id" :> JNum(7) @@ "page" :> JNum(2) @@ "token" :> JStr(Lit.L_1)),
   JsonBody("name" :> JStr(<<>>) @@ "age" :> JNum(0) @@ "score" :> JNum(0)
            @@ "userid" :> JNum(9) @@ "page_size" :> JNum(5)),
   JsonBody("name" :> JNum(5) @@ "email" :> JStr(Lit.L_abc)),
   JsonBody("name" :> JNull @@ "age" :> JNull @@ "email" :> JStr(Lit.L_John))}

Request(m, params, query, header, body) ==
  [method |-> m.method, ctype |-> m.ctype, params |-> params, query |-> query,
   header |-> header, body |-> body]

Requests ==
  {Request(m, p, qs, h, b) : m \in Methods, p \in ParamSets, qs \in QuerySets,
                             h \in HeaderSets, b \in Bodies}

----------------------------------------------------------------------------
(* The handler-shape adapter *)

\* A Go error value as an interface: its dynamic type and its message;
\* the nil interface has no dynamic type.  A nil pointer of a pointer type
\* that implements error is an error value that is not nil.
ErrorValue(type, msg) == [type |-> type, msg |-> msg]

NilError == ErrorValue("nil", <<>>)

\* types.go, BindingError: &BindingError{Err: err}
BindingError(err) == ErrorValue("*BindingError", err)

AppError == Ty("ptr", "*AppError", <<StructOf("AppError", <<>>)>>, <<>>, TRUE)

\* the values a result of the type can hold, as out[k].Interface() gives them
ErrorValues(ty) ==
  IF ty = errTy
    THEN {NilError, ErrorValue("*errors.errorString", <<"record not found">>),
          ErrorValue("*errors.errorString", <<"boom">>)}
  ELSE {ErrorValue(ty.name, <<>>), ErrorValue(ty.name, <<"denied">>)}

\* the data a two-result handler returns: nil or a value
DataValues == {<<>>, <<"data">>}

\* a value handed to FormBindingGinHandlerFunc: a function value with its
\* parameter and result types, or a value of another kind ("nil" is the
\* untyped nil, for which reflect.TypeOf returns no type)
Func(in, results) == [kind |-> "func", in |-> in, out |-> results]

Value(kind) == [kind |-> kind, in |-> <<>>, out |-> <<>>]

GinContext == PtrTo(ginCtxTy)

Registered(err) == [handler |-> err = <<>>, err |-> err, panic |-> FALSE]

\* binder.go 49-108
FormBindingGinHandlerFunc(i) ==
  LET inNum == Len(i.in)
      outNum == Len(i.out)
  IN IF i.kind = "nil" THEN [handler |-> FALSE, err |-> <<>>, panic |-> TRUE]
     ELSE IF i.kind # "func" THEN Registered(<<"input must be a function">>)
     ELSE IF inNum = 0 THEN Registered(<<"function must have at least one parameter">>)
     ELSE IF inNum > 2 THEN Registered(<<"function can have at most 2 parameters">>)
     ELSE IF outNum = 0 THEN Registered(<<"function must have at least one return value">>)
     ELSE IF outNum > 2 THEN Registered(<<"function can have at most 2 return values">>)
     ELSE IF i.in[1].kind # "ptr" \/ i.in[1].elem[1] # ginCtxTy
       THEN Registered(<<"first parameter must be *gin.Context">>)
     ELSE IF inNum = 2 /\ i.in[2].kind # "struct"
             /\ (i.in[2].kind # "ptr" \/ i.in[2].elem[1].kind # "struct")
       THEN Registered(<<"second parameter must be a struct or pointer to struct">>)
     ELSE IF outNum = 1 /\ ~i.out[1].impl
       THEN Registered(<<"single return value must be error">>)
     ELSE IF outNum = 2 /\ ~i.out[2].impl
       THEN Registered(<<"second return value must be error">>)
     ELSE Registered(<<>>)

\* the record types of the handlers that serve requests
HandlerRecordTypes ==
  {MixedRequest, DefaultsRequest, TokenRequest, BadDefaultRequest, FilterRequest,
   NestedBadDefaultRequest}

ParamLists ==
  {<<>>, <<GinContext>>, <<strTy>>, <<ginCtxTy, MixedRequest>>, <<PtrTo(MixedRequest)>>,
   <<MixedRequest, GinContext>>, <<GinContext, strTy>>, <<GinContext, PtrTo(strTy)>>,
   <<GinContext, PtrTo(PtrTo(MixedRequest))>>, <<GinContext, SliceOf(MixedRequest)>>,
   <<GinContext, MixedRequest, MixedRequest>>}
  \cup {<<GinContext, ty>> : ty \in HandlerRecordTypes}
  \cup {<<GinContext, PtrTo(ty)>> : ty \in HandlerRecordTypes}

ResultLists ==
  {<<>>, <<errTy>>, <<AppError>>, <<strTy>>, <<anyTy>>, <<anyTy, errTy>>, <<anyTy, AppError>>,
   <<anyTy, strTy>>, <<errTy, anyTy>>, <<errTy, errTy>>, <<anyTy, anyTy, errTy>>}

Candidates ==
  {Func(in, results) : in \in ParamLists, results \in ResultLists}
  \cup {Value(k) : k \in {"nil", "string", "int", "struct", "ptr", "chan"}}

\* the requests the handlers serve
HandlerRequests ==
  {Request(Method("POST", "application/json"), p, qs, <<>>, b) :
     p \in ParamSets, qs \in {<<>>, "page" :> Lit.L_abc},
     b \in {MalformedBody, JsonBody(<<>>),
            JsonBody("name" :> JStr(Lit.L_John) @@ "age" :> JNum(30))}}

Call(op, err, data) == [op |-> op, err |-> err, data |-> data]

NotDecoded == Decoded(<<>>, <<>>, FALSE, FALSE, <<>>, <<>>)

NoResults == [data |-> <<>>, err |-> NilError]

NoRequest == Request(Method("GET", ""), <<>>, <<>>, <<>>, EmptyBody)

NotRegistered == [state |-> "none", fn |-> Value("nil"), handler |-> FALSE, err |-> <<>>]

\* the values of the variables of a part of the model that is not run
AdapterIdle ==
  /\ builder = [validator |-> "nil"]
  /\ reg = NotRegistered
  /\ pc = "idle"
  /\ req = NoRequest
  /\ form = NotDecoded
  /\ out = NoResults
  /\ calls = <<>>

DecodeIdle ==
  /\ deTy = MixedRequest
  /\ deReq = NoRequest
  /\ deDone = FALSE
  /\ deRes = NotDecoded

CoerceIdle ==
  /\ coS = <<>>
  /\ coTy = strTy
  /\ coDone = FALSE
  /\ coRes = Coerced(<<>>)

\* ctx.JSON(code, body): the status code and the members of the JSON object
Response(code, body) == [code |-> code, body |-> body]

NoResponse == Response(0, <<>>)

RespondIdle ==
  /\ rhCall = Call("HandleSuccess", NilError, <<>>)
  /\ rhDone = FALSE
  /\ rhRes = NoResponse

\* the requests in flight at the same time
Flights == {1, 2}

\* a call of the closure: where it is, its request and its local variables
\* (form, the error of the validator, out) and the calls it made
Flight(at, q, d, e, o, seen, made) ==
  [pc |-> at, req |-> q, form |-> d, verr |-> e, out |-> o, seen |-> seen, calls |-> made]

NoFlight == Flight("idle", NoRequest, NotDecoded, NilError, NoResults, <<>>, <<>>)

FlightIdle ==
  /\ flight = [r \in Flights |-> NoFlight]
  /\ ins = [r \in Flights |-> <<>>]

----------------------------------------------------------------------------
(* Specification Spec: a builder, the registration of one candidate and    *)
(* the requests the returned handler serves, one after the other.          *)

\* NewBasicFormBindingGinHandlerBuilder(validator, responseHandler)
Init ==
  /\ builder \in {[validator |-> v] : v \in {"nil", "set"}}
  /\ reg = NotRegistered
  /\ pc = "idle"
  /\ req = NoRequest
  /\ form = NotDecoded
  /\ out = NoResults
  /\ calls = <<>>
  /\ DecodeIdle
  /\ CoerceIdle
  /\ RespondIdle
  /\ FlightIdle

\* the registration of i, for which FormBindingGinHandlerFunc gave r
Registration(i, r) ==
  [state |-> IF r.panic THEN "panicked" ELSE "returned",
   fn |-> i, handler |-> r.handler, err |-> r.err]

\* builder.FormBindingGinHandlerFunc(i)
Register ==
  /\ reg.state = "none"
  /\ \E i \in Candidates : reg' = Registration(i, FormBindingGinHandlerFunc(i))
  /\ UNCHANGED <<builder, pc, req, form, out, calls, deVars, coVars, rhVars, flVars>>

inNum == Len(reg.fn.in)

outNum == Len(reg.fn.out)

\* what ValidateStruct returns
ValidatorResults == {NilError, ErrorValue("validator.ValidationErrors", <<"validation failed">>)}

decodeCall(d) == <<Call("bindingFormValue", ErrorValue("error", d.err), <<>>)>>

abortCall(d) ==
  IF d.aborted THEN <<Call("gin.AbortWithError", ErrorValue("error", d.err), <<>>)>> ELSE <<>>

\* a closure that goes on after a decode error
bound_IgnoresDecodeError(d) ==
  /\ form' = d
  /\ pc' = "bound"
  /\ calls' = decodeCall(d)

\* binder.go 115-119: bindingFormValue did d
bound(d) ==
  /\ form' = d
  /\ IF d.panic THEN pc' = "panicked" /\ calls' = decodeCall(d)
     ELSE IF d.err # <<>>
       THEN /\ pc' = "done"
            /\ calls' = decodeCall(d) \o abortCall(d)
                          \o <<Call("HandleError", BindingError(d.err), <<>>)>>
     ELSE pc' = "bound" /\ calls' = decodeCall(d)

\* binder.go 110-119: gin calls the returned closure for a request; the
\* closure decodes the record when the function takes one
Bind ==
  /\ reg.state = "returned" /\ reg.handler
  /\ pc \in {"idle", "done", "panicked"}
  /\ \E q \in HandlerRequests :
       /\ req' = q
       /\ IF Len(reg.fn.in) = 2 THEN bound(bindingFormValue(q, reg.fn.in[2]))
          ELSE form' = NotDecoded /\ pc' = "ready" /\ calls' = <<>>
  /\ out' = NoResults
  /\ UNCHANGED <<builder, reg, deVars, coVars, rhVars, flVars>>

\* a closure that wraps the error of the validator in a BindingError
Validate_WrapsError ==
  /\ pc = "bound"
  /\ builder.validator = "set"
  /\ \E e \in ValidatorResults :
       IF e # NilError
         THEN /\ pc' = "done"
              /\ calls' = calls \o <<Call("ValidateStruct", e, <<>>),
                                     Call("HandleError", BindingError(e.msg), <<>>)>>
       ELSE pc' = "ready" /\ calls' = Append(calls, Call("ValidateStruct", e, <<>>))
  /\ UNCHANGED <<builder, reg, req, form, out, deVars, coVars, rhVars, flVars>>

\* binder.go 121-129: the validator, when the builder has one
Validate ==
  /\ pc = "bound"
  /\ IF builder.validator = "nil" THEN pc' = "ready" /\ calls' = calls
     ELSE \E e \in ValidatorResults :
            IF e # NilError
              THEN /\ pc' = "done"
                   /\ calls' = calls \o <<Call("ValidateStruct", e, <<>>),
                                          Call("HandleError", e, <<>>)>>
            ELSE pc' = "ready" /\ calls' = Append(calls, Call("ValidateStruct", e, <<>>))
  /\ UNCHANGED <<builder, reg, req, form, out, deVars, coVars, rhVars, flVars>>

\* binder.go 131: funcVal.Call(in), the business handler runs and returns
Invoke ==
  /\ pc = "ready"
  /\ \E e \in ErrorValues(reg.fn.out[outNum]),
        d \in IF outNum = 2 THEN DataValues ELSE {<<>>} :
       /\ out' = [data |-> d, err |-> e]
       /\ calls' = Append(calls, Call("handler", e, d))
  /\ pc' = "returned"
  /\ UNCHANGED <<builder, reg, req, form, deVars, coVars, rhVars, flVars>>

\* a closure that looks at the returned value before the error
respond_DataFirst(n, o) ==
  IF n = 2 /\ o.data # <<>> THEN Call("HandleSuccess", NilError, o.data)
  ELSE IF o.err # NilError THEN Call("HandleError", o.err, <<>>)
  ELSE Call("HandleSuccess", NilError, <<>>)

\* binder.go 133-149: the ResponseHandler call that ends the request, for a
\* function of n results that returned o
respond(n, o) ==
  IF o.err # NilError THEN Call("HandleError", o.err, <<>>)
  ELSE Call("HandleSuccess", NilError, IF n = 1 THEN <<>> ELSE o.data)

Respond ==
  /\ pc = "returned"
  /\ calls' = Append(calls, respond(outNum, out))
  /\ pc' = "done"
  /\ UNCHANGED <<builder, reg, req, form, out, deVars, coVars, rhVars, flVars>>

Next == Register \/ Bind \/ Validate \/ Invoke \/ Respond

Spec == Init /\ [][Next]_vars

----------------------------------------------------------------------------
(* Specification SpecDecode: bindingFormValue applied to every request and *)
(* record type of the pools, as a struct and through a pointer.            *)

DecodeTypes == RecordTypes \cup {PtrTo(ty) : ty \in RecordTypes}

InitDecode ==
  /\ deTy \in DecodeTypes
  /\ deReq \in Requests
  /\ deDone = FALSE
  /\ deRes = NotDecoded
  /\ AdapterIdle
  /\ CoerceIdle
  /\ RespondIdle
  /\ FlightIdle

\* a call bindingFormValue(ctx, deTy) for the request deReq
Decode ==
  /\ ~deDone
  /\ deDone' = TRUE
  /\ deRes' = bindingFormValue(deReq, deTy)
  /\ UNCHANGED <<deTy, deReq, adapterVars, coVars, rhVars, flVars>>

SpecDecode == InitDecode /\ [][Decode]_vars

----------------------------------------------------------------------------
(* Specification SpecCoerce: stringToVal applied to every source string    *)
(* and target type of the pools.                                           *)

InitCoerce ==
  /\ coS \in Literals
  /\ coTy \in CoerceTypes
  /\ coDone = FALSE
  /\ coRes = Coerced(<<>>)
  /\ AdapterIdle
  /\ DecodeIdle
  /\ RespondIdle
  /\ FlightIdle

\* a call stringToVal(coS, coTy)
Coerce ==
  /\ ~coDone
  /\ coDone' = TRUE
  /\ coRes' = stringToVal(coS, coTy)
  /\ UNCHANGED <<coS, coTy, adapterVars, deVars, rhVars, flVars>>

SpecCoerce == InitCoerce /\ [][Coerce]_vars

----------------------------------------------------------------------------
(* Specification SpecRespond: the DefaultResponseHandler applied to every  *)
(* error and every data value of the pools.                                *)

\* a handler that answers 500 with a fixed message for the errors it does
\* not know
HandleError_FixedMessage(err) ==
  IF err.type = "*BindingError"
    THEN Response(400, "status" :> <<"error">> @@ "message" :> err.msg)
  ELSE IF err.msg = <<"record not found">>
    THEN Response(404, "status" :> <<"error">> @@ "message" :> err.msg)
  ELSE IF err.msg = <<"unauthorized">>
    THEN Response(401, "status" :> <<"error">> @@ "message" :> err.msg)
  ELSE IF err.msg = <<"forbidden">>
    THEN Response(403, "status" :> <<"error">> @@ "message" :> err.msg)
  ELSE Response(500, "status" :> <<"error">> @@ "message" :> <<"Internal server error">>)

\* types.go 73-102: the type assertion err.(*BindingError) looks at the
\* dynamic type of err only, the switch at the whole of err.Error()
HandleError(err) ==
  IF err.type = "*BindingError"
    THEN Response(400, "status" :> <<"error">> @@ "message" :> err.msg)
  ELSE IF err.msg = <<"record not found">>
    THEN Response(404, "status" :> <<"error">> @@ "message" :> err.msg)
  ELSE IF err.msg = <<"unauthorized">>
    THEN Response(401, "status" :> <<"error">> @@ "message" :> err.msg)
  ELSE IF err.msg = <<"forbidden">>
    THEN Response(403, "status" :> <<"error">> @@ "message" :> err.msg)
  ELSE Response(500, "status" :> <<"error">> @@ "message" :> err.msg)

\* types.go 64-70: data == nil holds for the nil interface only
HandleSuccess(data) ==
  IF data = <<>> THEN Response(200, "status" :> <<"success">>)
  ELSE Response(200, "status" :> <<"success">> @@ "data" :> data)

\* the dynamic types of the errors handed to HandleError; a *fmt.wrapError
\* is what fmt.Errorf("...: %w", bindingErr) gives
ErrorTypes ==
  {"*BindingError", "*errors.errorString", "validator.ValidationErrors", "*AppError",
   "*fmt.wrapError"}

\* what err.Error() gives, in parts
ErrorMessages ==
  {<<>>, <<"record not found">>, <<"unauthorized">>, <<"forbidden">>,
   <<"Record not found">>, <<"record not found", "users">>, <<"forbidden ">>,
   <<"boom">>, <<"validation failed">>, <<"Internal server error">>,
   <<"failed to parse path parameter", "id", "unsupported type conversion", "map">>}

\* the data handed to HandleSuccess: the nil interface, a value, and a nil
\* pointer held in an interface that is not nil
SuccessData == DataValues \cup {<<"(*T)(nil)">>}

ResponseCalls ==
  {Call("HandleError", ErrorValue(ty, msg), <<>>) : ty \in ErrorTypes, msg \in ErrorMessages}
  \cup {Call("HandleSuccess", NilError, d) : d \in SuccessData}

InitRespond ==
  /\ rhCall \in ResponseCalls
  /\ rhDone = FALSE
  /\ rhRes = NoResponse
  /\ AdapterIdle
  /\ DecodeIdle
  /\ CoerceIdle
  /\ FlightIdle

\* the call rhCall of the DefaultResponseHandler
Answer ==
  /\ ~rhDone
  /\ rhDone' = TRUE
  /\ rhRes' = IF rhCall.op = "HandleError" THEN HandleError(rhCall.err)
                ELSE HandleSuccess(rhCall.data)
  /\ UNCHANGED <<rhCall, adapterVars, deVars, coVars, flVars>>

SpecRespond == InitRespond /\ [][Answer]_vars

----------------------------------------------------------------------------
(* Specification SpecConcurrent: gin runs the closure of one registered    *)
(* function for several requests at once; the steps of the calls           *)
(* interleave.                                                             *)

ConcurrentHandlers ==
  {Func(<<GinContext, MixedRequest>>, <<anyTy, errTy>>),
   Func(<<GinContext, PtrTo(DefaultsRequest)>>, <<errTy>>),
   Func(<<GinContext>>, <<anyTy, errTy>>)}

ConcurrentRequests ==
  {Request(Method("POST", "application/json"), p, <<>>, <<>>, b) :
     p \in ParamSets,
     b \in {MalformedBody, JsonBody("name" :> JStr(Lit.L_John) @@ "age" :> JNum(30))}}

\* an argument list made once, when the function is registered, and used
\* by every call of the closure
frameOf_Shared(r) == 1

\* binder.go 111: each call of the closure makes its own argument list
\* `in`; r names the frame of the call r
frameOf(r) == r

\* the builder and the registration of one function, no request yet
InitConcurrent ==
  /\ builder \in {[validator |-> v] : v \in {"nil", "set"}}
  /\ reg \in {Registration(i, FormBindingGinHandlerFunc(i)) : i \in ConcurrentHandlers}
  /\ pc = "idle"
  /\ req = NoRequest
  /\ form = NotDecoded
  /\ out = NoResults
  /\ calls = <<>>
  /\ FlightIdle
  /\ DecodeIdle
  /\ CoerceIdle
  /\ RespondIdle

\* binder.go 114-119: the call for the request q after bindingFormValue did d
served(q, d) ==
  IF d.panic
    THEN Flight("panicked", q, d, NilError, NoResults, <<>>, decodeCall(d))
  ELSE IF d.err # <<>>
    THEN Flight("done", q, d, NilError, NoResults, <<>>,
                decodeCall(d) \o abortCall(d)
                  \o <<Call("HandleError", BindingError(d.err), <<>>)>>)
  ELSE Flight("bound", q, d, NilError, NoResults, <<>>, decodeCall(d))

\* binder.go 110-119: gin calls the closure for a request
Enter(r) ==
  /\ reg.state = "returned" /\ reg.handler
  /\ flight[r].pc = "idle"
  /\ \E q \in ConcurrentRequests :
       /\ flight' = [flight EXCEPT ![r] =
                       IF inNum = 2 THEN served(q, bindingFormValue(q, reg.fn.in[2]))
                       ELSE Flight("ready", q, NotDecoded, NilError, NoResults, <<>>, <<>>)]
       /\ ins' = [ins EXCEPT ![frameOf(r)] = <<q>>]
  /\ UNCHANGED <<adapterVars, deVars, coVars, rhVars>>

\* binder.go 121-126: the call f after ValidateStruct returned e
checked(f, e) ==
  IF e # NilError
    THEN Flight("done", f.req, f.form, e, f.out, f.seen,
                f.calls \o <<Call("ValidateStruct", e, <<>>), Call("HandleError", e, <<>>)>>)
  ELSE Flight("ready", f.req, f.form, e, f.out, f.seen,
              Append(f.calls, Call("ValidateStruct", e, <<>>)))

\* binder.go 121-129: the validator, then in = append(in, form)
Check(r) ==
  /\ flight[r].pc = "bound"
  /\ IF builder.validator = "nil"
       THEN flight' = [flight EXCEPT ![r].pc = "ready"]
     ELSE \E e \in ValidatorResults : flight' = [flight EXCEPT ![r] = checked(@, e)]
  /\ ins' = IF flight'[r].pc = "ready"
              THEN [ins EXCEPT ![frameOf(r)] = Append(@, flight[r].form.val)]
            ELSE ins
  /\ UNCHANGED <<adapterVars, deVars, coVars, rhVars>>

\* binder.go 131: funcVal.Call(in); the function sees the argument list
CallHandler(r) ==
  /\ flight[r].pc = "ready"
  /\ \E e \in ErrorValues(reg.fn.out[outNum]),
        d \in IF outNum = 2 THEN DataValues ELSE {<<>>} :
       flight' = [flight EXCEPT ![r].pc = "returned",
                                ![r].out = [data |-> d, err |-> e],
                                ![r].seen = ins[frameOf(r)],
                                ![r].calls = Append(@, Call("handler", e, d))]
  /\ UNCHANGED <<ins, adapterVars, deVars, coVars, rhVars>>

\* binder.go 133-149
Reply(r) ==
  /\ flight[r].pc = "returned"
  /\ flight' = [flight EXCEPT ![r].pc = "done",
                              ![r].calls = Append(@, respond(outNum, flight[r].out))]
  /\ UNCHANGED <<ins, adapterVars, deVars, coVars, rhVars>>

NextConcurrent ==
  \E r \in Flights : Enter(r) \/ Check(r) \/ CallHandler(r) \/ Reply(r)

SpecConcurrent == InitConcurrent /\ [][NextConcurrent]_vars

----------------------------------------------------------------------------
(* Properties of the adapter, checked under Spec *)

\* binder.go 44-48 and 54-106: the function shapes the adapter supports
SupportedShape(i) ==
  /\ i.kind = "func"
  /\ Len(i.in) \in {1, 2}
  /\ i.in[1] = GinContext
  /\ Len(i.in) = 2 =>
       \/ i.in[2].kind = "struct"
       \/ i.in[2].kind = "ptr" /\ i.in[2].elem[1].kind = "struct"
  /\ Len(i.out) \in {1, 2}
  /\ i.out[Len(i.out)].impl

\* C1: FormBindingGinHandlerFunc(i) returns a handler and a nil error
\* exactly when i is a function of a supported shape; for every other
\* function or non-function value it returns an error and no handler.
C1_ShapeContract ==
  reg.state # "none" =>
    /\ reg.state = "returned"
    /\ (reg.handler /\ reg.err = <<>>) <=> SupportedShape(reg.fn)
    /\ ~SupportedShape(reg.fn) => (~reg.handler /\ reg.err # <<>>)

\* the calls of the closure to a method of the ResponseHandler
EmitterCalls == SelectSeq(calls, LAMBDA c : c.op \in {"HandleError", "HandleSuccess"})

\* the request failed: in the decoder, in the validator or in the handler
RequestFailed ==
  \/ form.err # <<>>
  \/ \E k \in 1..Len(calls) : calls[k].op = "ValidateStruct" /\ calls[k].err # NilError
  \/ out.err # NilError

\* C2: for every request served by an adapted handler exactly one
\* ResponseHandler method is called, exactly once: HandleError on any
\* failure, HandleSuccess otherwise; no request ends with zero or two calls.
C2_ExactlyOneEmitterCall ==
  /\ Len(EmitterCalls) <= 1
  /\ pc \in {"done", "panicked"} => Len(EmitterCalls) = 1
  /\ pc = "done" => (EmitterCalls[1].op = "HandleError" <=> RequestFailed)

\* C3: if decoding the record fails in any stage, neither the validator nor
\* the business handler is invoked for the request, and HandleError is
\* called once, with a *BindingError that wraps the decode error.
C3_DecodeFailureEndsRequest ==
  (pc # "idle" /\ form.err # <<>>) =>
    /\ pc = "done"
    /\ \A k \in 1..Len(calls) : calls[k].op \notin {"ValidateStruct", "handler", "HandleSuccess"}
    /\ EmitterCalls = <<Call("HandleError", BindingError(form.err), <<>>)>>

C3_Witness ==
  /\ pc = "done"
  /\ form.err # <<>>
  /\ Ran(form, "defaults")
  /\ builder.validator = "set"

\* C4: if the validator returns an error for the decoded record, the
\* business handler is not invoked and HandleError receives that very
\* error value, not wrapped in a BindingError.
C4_ValidatorErrorPassedThrough ==
  \A k \in 1..Len(calls) :
    (calls[k].op = "ValidateStruct" /\ calls[k].err # NilError) =>
      /\ pc = "done"
      /\ Len(calls) = k + 1
      /\ calls[k + 1] = Call("HandleError", calls[k].err, <<>>)
      /\ \A j \in 1..Len(calls) : calls[j].op # "handler"

C4_Witness ==
  /\ form.err = <<>>
  /\ \E k \in 1..Len(calls) : calls[k].op = "ValidateStruct" /\ calls[k].err # NilError

\* C5: after the business handler returned, a one-result handler with a nil
\* error leads to HandleSuccess with nil data, a two-result handler with a
\* nil error to HandleSuccess with the returned value, and any error that
\* is not nil to HandleError with that very error value, the returned
\* value being discarded.
C5_HandlerOutcomeNormalized ==
  \A k \in 1..Len(calls) :
    (calls[k].op = "handler" /\ pc = "done") =>
      /\ calls[k] = Call("handler", out.err, out.data)
      /\ Len(calls) = k + 1
      /\ out.err = NilError /\ outNum = 1 =>
           calls[k + 1] = Call("HandleSuccess", NilError, <<>>)
      /\ out.err = NilError /\ outNum = 2 =>
           calls[k + 1] = Call("HandleSuccess", NilError, out.data)
      /\ out.err # NilError => calls[k + 1] = Call("HandleError", out.err, <<>>)

C5_Witness ==
  /\ pc = "done"
  /\ outNum = 2
  /\ out.err # NilError
  /\ out.data # <<>>
  /\ calls[Len(calls)].op = "HandleError"

----------------------------------------------------------------------------
(* Properties of the decoder, checked under SpecDecode *)

\* the record type decoded, and the record the handler is handed
deRecTy == Pointee(deTy)

deRecord == Deref(deTy, deRes.val)

deSucceeded == deDone /\ deRes.err = <<>> /\ ~deRes.panic

\* the fields of the record itself that are exported and not embedded
OwnFields == {i \in 1..Len(deRecTy.fields) :
                deRecTy.fields[i].exported /\ ~deRecTy.fields[i].anonymous}

\* the default literal of the field coerced to the type of the field, or
\* a pointer to it
CoercedDefault(sf) ==
  IF sf.type.kind = "ptr" THEN <<stringToVal(sf.tags.default[1], sf.type.elem[1]).val>>
  ELSE stringToVal(sf.tags.default[1], sf.type).val

\* C6: after a successful decode, an exported field of the record that is
\* not embedded holds the coerced default literal if and only if it carries
\* a default tag and was the zero value of its type after all source
\* stages; otherwise it holds the value the sources gave it.
C6_DefaultIffZero ==
  deSucceeded =>
    \A i \in OwnFields :
      deRecord[i] = IF /\ HasTag(deRecTy.fields[i], "default")
                       /\ deRes.sourced[i] = Zero(deRecTy.fields[i].type)
                      THEN CoercedDefault(deRecTy.fields[i])
                    ELSE deRes.sourced[i]

C6_Witness ==
  /\ deSucceeded
  /\ \E i \in OwnFields :
       /\ HasTag(deRecTy.fields[i], "default")
       /\ deRes.sourced[i] = Zero(deRecTy.fields[i].type)
       /\ deRecord[i] # deRes.sourced[i]
  /\ \E i \in OwnFields :
       /\ HasTag(deRecTy.fields[i], "default")
       /\ deRes.sourced[i] # Zero(deRecTy.fields[i].type)

\* C7: a pointer field with a default tag that is still nil after all
\* source stages is allocated and its pointee is set to the coerced default
\* literal: the handler gets a pointer that is not nil.
C7_NilPointerDefaultAllocated ==
  deSucceeded =>
    \A i \in OwnFields :
      (/\ deRecTy.fields[i].type.kind = "ptr"
       /\ HasTag(deRecTy.fields[i], "default")
       /\ deRes.sourced[i] = <<>>) =>
        /\ deRecord[i] # <<>>
        /\ deRecord[i][1] = stringToVal(deRecTy.fields[i].tags.default[1],
                                        deRecTy.fields[i].type.elem[1]).val

C7_Witness ==
  /\ deSucceeded
  /\ \E i \in OwnFields :
       /\ deRecTy.fields[i].type.kind = "ptr"
       /\ HasTag(deRecTy.fields[i], "default")
       /\ deRes.sourced[i] = <<>>
       /\ deRecord[i] # <<>>

\* whether the record type embeds a struct
EmbedsStruct(ty) ==
  \E i \in 1..Len(ty.fields) : ty.fields[i].anonymous /\ ty.fields[i].type.kind = "struct"

\* C8: the fields of an embedded record are bound and defaulted as if they
\* were declared on the enclosing record: decoding a record that embeds a
\* struct gives the field values that decoding the flattened record gives.
C8_EmbeddedAsFlattened ==
  (deDone /\ deTy.kind = "struct" /\ EmbedsStruct(deTy)) =>
    /\ (deRes.err = <<>>) = (bindingFormValue(deReq, Flattened(deTy)).err = <<>>)
    /\ deRes.err = <<>> =>
         FlatValue(deTy.fields, deRes.val) = bindingFormValue(deReq, Flattened(deTy)).val

\* C9: a field of the record that is not exported is never written by the
\* decoder or by the defaults: it holds its type's zero value when the
\* handler is invoked.
C9_UnexportedUntouched ==
  deSucceeded =>
    \A i \in 1..Len(deRecTy.fields) :
      ~deRecTy.fields[i].exported => deRecord[i] = Zero(deRecTy.fields[i].type)

----------------------------------------------------------------------------
(* Properties of the coercer, checked under SpecCoerce *)

\* C10: coercing the empty string gives the zero value of the target type
\* and never an error, for every target type, the types the coercer does
\* not support otherwise included.
C10_EmptyIsZero ==
  (coDone /\ coS = <<>>) => (coRes.err = <<>> /\ coRes.val = Zero(coTy))

C10_Witness ==
  /\ coDone
  /\ coS = <<>>
  /\ coRes.err = <<>>
  /\ convertString(Lit.L_25, coTy).err # <<>>

\* the integer target types the coercer is documented to support
IntegerTypes == {Scalar(k) : k \in IntKinds \cup UintKinds}

\* a base-10 integer literal: decimal digits, after a minus sign for a
\* negative number
IsIntLiteral(s) ==
  /\ s # <<>>
  /\ IF Head(s) = "-" THEN Len(s) > 1 /\ AllDigits(Tail(s)) ELSE AllDigits(s)

\* the digits of the literal without its sign and its leading zeros
LiteralDigits(s) == StripZeros(IF Head(s) = "-" THEN Tail(s) ELSE s)

\* the integer the literal denotes, for a literal of at most nine digits
Denoted(s) ==
  IF Head(s) = "-" THEN 0 - DigitsVal(LiteralDigits(s)) ELSE DigitsVal(LiteralDigits(s))

\* the literal lies in the range of the integer kind (literals of more
\* than nine digits are left out)
InRange(s, kind) ==
  /\ Len(LiteralDigits(s)) <= 9
  /\ kind \in UintKinds => Denoted(s) >= 0
  /\ kind \in {"int8"} => Denoted(s) >= 0 - 128 /\ Denoted(s) <= 127
  /\ kind \in {"int16"} => Denoted(s) >= 0 - 32768 /\ Denoted(s) <= 32767
  /\ kind \in {"uint8"} => Denoted(s) <= 255
  /\ kind \in {"uint16"} => Denoted(s) <= 65535

\* C11: for every supported integer target type (int, int8, int16, int32,
\* int64, uint, uint8, uint16, uint32, uint64) and every base-10 literal
\* within the range of the type, coercion succeeds and gives the integer
\* the literal denotes.
C11_IntegerLiteralCoerced ==
  (coDone /\ coTy \in IntegerTypes /\ IsIntLiteral(coS) /\ InRange(coS, coTy.kind)) =>
    /\ coRes.err = <<>>
    /\ coRes.val = Denoted(coS)

\* the words for true and for false
TrueWords == {<<"t", "r", "u", "e">>, <<"1">>, <<"y", "e", "s">>, <<"o", "n">>}

FalseWords == {<<"f", "a", "l", "s", "e">>, <<"0">>, <<"n", "o">>, <<"o", "f", "f">>}

\* C12: coercing a string that is not empty to bool lower-cases and trims
\* it, then gives true for exactly true, 1, yes, on and false for exactly
\* false, 0, no, off; every other string is an error.
C12_BoolWords ==
  (coDone /\ coTy.kind = "bool" /\ coS # <<>>) =>
    /\ ToLower(TrimSpace(coS)) \in TrueWords => (coRes.err = <<>> /\ coRes.val = TRUE)
    /\ ToLower(TrimSpace(coS)) \in FalseWords => (coRes.err = <<>> /\ coRes.val = FALSE)
    /\ ToLower(TrimSpace(coS)) \notin TrueWords \cup FalseWords => coRes.err # <<>>

C12_Witness ==
  /\ coDone
  /\ coTy.kind = "bool"
  /\ coS = Lit.L__True_
  /\ coRes = Coerced(TRUE)

\* the target types the coercer is documented to support: string, the
\* integers, the floats, bool, time.Duration (an int64) and time.Time
SupportedTarget(ty) ==
  \/ ty.kind \in {"string", "bool"} \cup IntKinds \cup UintKinds \cup FloatKinds
  \/ ty = timeTy

\* C13: coercing a string that is not empty to a target type other than
\* string, signed or unsigned integer, float, bool, duration or timestamp
\* returns an unsupported-type error and never a value.
C13_OtherTypesUnsupported ==
  (coDone /\ coS # <<>> /\ ~SupportedTarget(coTy)) =>
    /\ coRes.err # <<>>
    /\ Head(coRes.err) = "unsupported type conversion"
    /\ coRes.val = Zero(coTy)

\* the record has an exported field with a path, header or form tag whose
\* type (or the type it points to) is not a supported target of the coercer
HasUnsupportedTaggedField(ty) ==
  \E i \in 1..Len(ty.fields) :
    /\ ty.fields[i].exported
    /\ \E tag \in {"path", "header", "form"} : HasTag(ty.fields[i], tag)
    /\ ~SupportedTarget(Pointee(ty.fields[i].type))

\* C14: registering a handler whose record has a path, header or form tag
\* on a field of an unsupported type fails with an error at registration
\* time; such a field-type error never first appears while a request is
\* served.
C14_FieldTypesCheckedAtRegistration ==
  /\ (reg.state = "returned" /\ Len(reg.fn.in) = 2
        /\ HasUnsupportedTaggedField(Pointee(reg.fn.in[2]))) =>
       (~reg.handler /\ reg.err # <<>>)
  /\ \A k \in 1..Len(form.err) : form.err[k] # "unsupported type conversion"

\* C16: the DefaultResponseHandler answers a *BindingError with 400, an
\* error whose message is exactly "record not found" with 404, "unauthorized"
\* with 401, "forbidden" with 403 and every other error with 500, always
\* with status "error" and the message of the error; a success is answered
\* with 200 and status "success", with a data member only when the data is
\* not nil.
C16_DefaultResponses ==
  rhDone =>
    IF rhCall.op = "HandleError"
      THEN /\ rhRes.code =
                IF rhCall.err.type = "*BindingError" THEN 400
                ELSE IF rhCall.err.msg = <<"record not found">> THEN 404
                ELSE IF rhCall.err.msg = <<"unauthorized">> THEN 401
                ELSE IF rhCall.err.msg = <<"forbidden">> THEN 403
                ELSE 500
           /\ DOMAIN rhRes.body = {"status", "message"}
           /\ rhRes.body["status"] = <<"error">>
           /\ rhRes.body["message"] = rhCall.err.msg
    ELSE /\ rhRes.code = 200
         /\ rhRes.body["status"] = <<"success">>
         /\ DOMAIN rhRes.body =
              IF rhCall.data # <<>> THEN {"status", "data"} ELSE {"status"}
         /\ rhCall.data # <<>> => rhRes.body["data"] = rhCall.data

C16_Witness ==
  /\ rhDone
  /\ rhCall = Call("HandleError", ErrorValue("validator.ValidationErrors",
                                             <<"validation failed">>), <<>>)
  /\ rhRes.code = 500
  /\ rhRes.body["message"] = <<"validation failed">>

\* the calls a request makes when the closure serves it alone: d is what
\* bindingFormValue does for it, e what the validator returns, o what the
\* function of n parameters and k results returns
aloneCalls(n, k, v, d, e, o) ==
  IF n = 1 THEN <<Call("handler", o.err, o.data), respond(k, o)>>
  ELSE IF d.err # <<>>
    THEN decodeCall(d) \o abortCall(d) \o <<Call("HandleError", BindingError(d.err), <<>>)>>
  ELSE IF v = "set" /\ e # NilError
    THEN decodeCall(d) \o <<Call("ValidateStruct", e, <<>>), Call("HandleError", e, <<>>)>>
  ELSE decodeCall(d)
         \o (IF v = "set" THEN <<Call("ValidateStruct", e, <<>>)>> ELSE <<>>)
         \o <<Call("handler", o.err, o.data), respond(k, o)>>

\* the call f has the record, the arguments and the outcome of its own
\* request, for which bindingFormValue alone does d
asAlone(f, d) ==
  /\ f.pc # "idle" => f.form = d
  /\ f.pc \in {"returned", "done"} /\ f.calls[Len(f.calls)].op # "HandleError"
       => f.seen = IF inNum = 2 THEN <<f.req, d.val>> ELSE <<f.req>>
  /\ f.pc = "done" => f.calls = aloneCalls(inNum, outNum, builder.validator, d, f.verr, f.out)

EachAsAlone ==
  \A r \in Flights :
    asAlone(flight[r], IF inNum = 2 /\ flight[r].pc # "idle"
                         THEN bindingFormValue(flight[r].req, reg.fn.in[2])
                       ELSE NotDecoded)

\* C15: when several requests run at the same time through one adapted
\* function, each decodes into its own record and argument list, and what
\* they share (the function, its type and counts, the validator, the
\* response handler) is never written after registration: under every
\* interleaving the record and the outcome of each request are those of
\* running it alone.
C15_ConcurrentAsAlone ==
  /\ []EachAsAlone
  /\ [][reg' = reg /\ builder' = builder]_vars

C15_Witness ==
  /\ flight[1].pc = "done" /\ flight[2].pc = "done"
  /\ flight[1].req # flight[2].req
  /\ flight[1].seen # <<>> /\ flight[2].seen # <<>>
  /\ flight[1].seen # flight[2].seen
  /\ flight[1].calls[Len(flight[1].calls)].op = "HandleSuccess"
  /\ flight[2].calls[Len(flight[2].calls)].op = "HandleError"

\* the place of a call in the order of the closure
StepRank(op) ==
  CASE op = "bindingFormValue" -> 1
    [] op = "gin.AbortWithError" -> 2
    [] op = "ValidateStruct" -> 3
    [] op = "handler" -> 4
    [] op \in {"HandleError", "HandleSuccess"} -> 5

Called(op) == \E k \in 1..Len(calls) : calls[k].op = op

\* the step of the call c failed
StepFailed(c) ==
  /\ c.op \in {"bindingFormValue", "ValidateStruct", "handler"}
  /\ c.err.msg # <<>> \/ c.err.type \notin {"nil", "error"}

\* the record a handler of parameter type ty gets when the defaults are
\* applied to what the sources left
WithDefaults(ty, d) ==
  IF ty.kind = "ptr" THEN <<applyDefaultValues(Pointee(ty), d.sourced).val>>
  ELSE applyDefaultValues(ty, d.sourced).val

\* C17: in every request to a function that takes a record the steps occur
\* in the order decode, default application, validator (only when the
\* builder has one), function, response handler, each at most once; the
\* validator gets the record with the defaults applied; once a step has
\* failed no later step runs except the one HandleError call.
C17_StepOrder ==
  (Len(reg.fn.in) = 2 /\ pc # "idle") =>
    /\ calls[1].op = "bindingFormValue"
    /\ \A j, k \in 1..Len(calls) : j < k => StepRank(calls[j].op) < StepRank(calls[k].op)
    /\ Ran(form, "defaults") =>
         /\ form.ran[Len(form.ran)] = "defaults"
         /\ form.ran[Len(form.ran) - 1] = "body"
    /\ Called("ValidateStruct") => builder.validator = "set"
    /\ (Called("handler") /\ builder.validator = "set") => Called("ValidateStruct")
    /\ (pc \in {"bound", "ready", "returned"} \/ Called("ValidateStruct") \/ Called("handler")) =>
         /\ form.err = <<>> /\ ~form.panic
         /\ Ran(form, "defaults")
         /\ form.val = WithDefaults(reg.fn.in[2], form)
    /\ \A k \in 1..Len(calls) :
         StepFailed(calls[k]) =>
           /\ \A j \in (k + 1)..Len(calls) : calls[j].op \in {"gin.AbortWithError", "HandleError"}
           /\ pc \in {"done", "panicked"} \/ (pc = "returned" /\ calls[k].op = "handler")
    /\ form.panic => pc = "panicked" /\ Len(calls) = 1

C17_Witness ==
  /\ pc = "done"
  /\ builder.validator = "set"
  /\ Len(calls) = 4
  /\ calls[1].op = "bindingFormValue" /\ calls[2].op = "ValidateStruct"
  /\ calls[3].op = "handler" /\ calls[4].op = "HandleSuccess"
  /\ form.val # form.sourced
  /\ reg.fn.in[2].kind = "struct"

\* the stages of a decode of the record type ty, in the order of the code,
\* when none of them fails
StageOrder(ty) ==
  <<"path">>
    \o (IF TagsNum(ty, "form") > 0 THEN <<"query">> ELSE <<>>)
    \o (IF TagsNum(ty, "header") > 0 THEN <<"header">> ELSE <<>>)
    \o <<"body">>

\* the stage of the decode d that returned its error: the last that ran
FailedStage(d) == d.ran[Len(d.ran)]

\* C18: within one decode the path stage runs first, then the query stage
\* (only if at least one field of the record has a form tag), then the
\* header stage (only if at least one field has a header tag), then the
\* body stage, which is attempted whether or not any field is bound to the
\* body; a stage runs only when the stages before it did not fail.
C18_StageOrder ==
  deDone =>
    /\ deRes.ran[1] = "path"
    /\ \A k \in 1..Len(deRes.ran) :
         deRes.ran[k] # "defaults" => (k <= Len(StageOrder(deRecTy)) /\ deRes.ran[k] = StageOrder(deRecTy)[k])
    /\ Ran(deRes, "query") <=> (TagsNum(deRecTy, "form") > 0 /\ Len(deRes.ran) > 1)
    /\ (deRes.err = <<>> /\ ~deRes.panic) => Ran(deRes, "body")
    /\ (Ran(deRes, "header") /\ TagsNum(deRecTy, "form") > 0) => deRes.ran[2] = "query"
    /\ (~Ran(deRes, "body")) => (deRes.err # <<>> /\ FailedStage(deRes) \in {"path", "query", "header"})

C18_Witness ==
  /\ deDone
  /\ deRes.ran = <<"path", "query", "header", "body", "defaults">>
  /\ deRes.err = <<>>
  /\ deReq.method = "POST"

\* a record with no json tag still goes through the body stage
C18_WitnessNoBodyField ==
  /\ deDone
  /\ TagsNum(deRecTy, "json") = 0
  /\ Ran(deRes, "body")
  /\ deRes.err # <<>>
  /\ FailedStage(deRes) = "body"

\* C19: for every exported field with a path tag, whatever other tags it
\* has, the value the sources leave in it is the one coerced from the path
\* parameter the tag names: the query, header and body stages never change
\* it.
C19_PathFieldFromPathOnly ==
  (deDone /\ deRes.err = <<>> /\ ~deRes.panic) =>
    \A i \in 1..Len(deRecTy.fields) :
      (deRecTy.fields[i].exported /\ HasTag(deRecTy.fields[i], "path")) =>
        deRes.sourced[i] =
          stringToVal(Param(deReq, deRecTy.fields[i].tags.path[1]), deRecTy.fields[i].type).val

\* what stringToVal gives for the path parameter of field i of the record
pathCoerced(i) ==
  stringToVal(Param(deReq, deRecTy.fields[i].tags.path[1]), deRecTy.fields[i].type)

PathTagged(i) == deRecTy.fields[i].exported /\ HasTag(deRecTy.fields[i], "path")

\* the first path-tagged field, in the order of declaration, whose
\* parameter is not coerced, or 0
FirstPathFailure ==
  IF \E i \in 1..Len(deRecTy.fields) : PathTagged(i) /\ pathCoerced(i).err # <<>>
    THEN First({i \in 1..Len(deRecTy.fields) : PathTagged(i) /\ pathCoerced(i).err # <<>>})
  ELSE 0

\* pr is what the path stage gives for the request and f the first field
\* that fails
pathStage(pr, f) ==
  /\ \A i \in 1..Len(deRecTy.fields) :
       IF PathTagged(i) /\ (f = 0 \/ i < f)
         THEN pr.val[i] = IF Param(deReq, deRecTy.fields[i].tags.path[1]) = <<>>
                            THEN Zero(deRecTy.fields[i].type)
                          ELSE pathCoerced(i).val
       ELSE pr.val[i] = Zero(deRecTy.fields[i].type)
  /\ IF f = 0
       THEN /\ pr.err = <<>>
            /\ Len(deRes.ran) > 1
     ELSE /\ pr.err = <<"failed to parse path parameter", deRecTy.fields[f].tags.path[1]>>
                        \o pathCoerced(f).err
          /\ deRes.err = pr.err
          /\ deRes.ran = <<"path">>
          /\ deRes.sourced = pr.val
          /\ deRes.val = IF deTy.kind = "ptr" THEN <<>> ELSE pr.val

\* C20: in the path stage a path-tagged field whose parameter is absent or
\* empty keeps its zero value, otherwise the parameter is coerced to the
\* type of the field; the first coercion failure, in the order of
\* declaration, ends the decode at once with an error that names the path
\* key: no later field and no query, header, body or default stage is
\* processed.
C20_PathStage ==
  deDone => pathStage(pathLoop(deReq, deRecTy, Zero(deRecTy)), FirstPathFailure)

C20_Witness ==
  /\ deDone
  /\ deRecTy.name = "PathRequest"
  /\ deRes.ran = <<"path">>
  /\ deRes.err[2] = "user_id"
  /\ deRes.sourced[1] = Lit.L_abc
  /\ deRes.sourced[3] = 0

\* pr is what the path stage gives: a pointer field with a path tag is nil
\* for an absent or empty parameter and points to the coerced value for a
\* parameter that can be coerced to the type pointed to
pointerFromPath(pr, i) ==
  IF Param(deReq, deRecTy.fields[i].tags.path[1]) = <<>> THEN pr.val[i] = <<>>
  ELSE stringToVal(Param(deReq, deRecTy.fields[i].tags.path[1]),
                   deRecTy.fields[i].type.elem[1]).err = <<>> =>
         /\ pr.err = <<>>
         /\ pr.val[i] = <<stringToVal(Param(deReq, deRecTy.fields[i].tags.path[1]),
                                      deRecTy.fields[i].type.elem[1]).val>>

\* C21: for a pointer-typed field bound from the path, an empty or absent
\* parameter leaves the pointer nil, and a parameter that can be coerced to
\* the type pointed to allocates storage and sets it to the coerced value.
C21_PointerFieldOptional ==
  deDone =>
    \A i \in 1..Len(deRecTy.fields) :
      (PathTagged(i) /\ deRecTy.fields[i].type.kind = "ptr"
         /\ (FirstPathFailure = 0 \/ i <= FirstPathFailure)) =>
        pointerFromPath(pathLoop(deReq, deRecTy, Zero(deRecTy)), i)

\* the exported fields of the record that embed a record through a pointer
EmbeddedPointers ==
  {i \in 1..Len(deRecTy.fields) :
     /\ deRecTy.fields[i].exported /\ deRecTy.fields[i].anonymous
     /\ deRecTy.fields[i].type.kind = "ptr"
     /\ deRecTy.fields[i].type.elem[1].kind = "struct"}

\* C22: default application recurses into every embedded record, also one
\* embedded through a pointer that is nil after the sources: the pointer is
\* allocated and the default-tagged fields of the embedded record are
\* filled.
C22_NilEmbeddedPointerDefaulted ==
  deSucceeded =>
    \A i \in EmbeddedPointers :
      deRes.sourced[i] = <<>> =>
        deRecord[i] = <<applyDefaultValues(deRecTy.fields[i].type.elem[1],
                                           Zero(deRecTy.fields[i].type.elem[1])).val>>

\* the fields of the struct v of type ty whose default has to be applied
\* and cannot be coerced to the type of the field
BadDefaults(ty, v) ==
  {i \in 1..Len(ty.fields) :
     /\ ty.fields[i].exported /\ ~ty.fields[i].anonymous
     /\ HasTag(ty.fields[i], "default")
     /\ v[i] = Zero(ty.fields[i].type)
     /\ stringToVal(ty.fields[i].tags.default[1], Pointee(ty.fields[i].type)).err # <<>>}

\* the embedded records of the struct v that have such a field
NestedBadDefaults(ty, v) ==
  {i \in 1..Len(ty.fields) :
     /\ ty.fields[i].exported /\ ty.fields[i].anonymous
     /\ ty.fields[i].type.kind = "struct"
     /\ BadDefaults(ty.fields[i].type, v[i]) # {}}

\* the names the error of the default stage begins with, for the first
\* field i of the struct v that fails
DefaultErrorNames(ty, v, i) ==
  IF i \in BadDefaults(ty, v) THEN <<"field", ty.fields[i].name>>
  ELSE <<"embedded struct", ty.fields[i].name, "field",
         ty.fields[i].type.fields[First(BadDefaults(ty.fields[i].type, v[i]))].name>>

\* C23: if a default literal that has to be applied cannot be coerced to
\* the type of its field, the whole decode fails with an error that names
\* the field (and the embedded struct, when nested), neither the validator
\* nor the function is called, and HandleError gets the error as a
\* BindingError.
C23_BadDefaultFailsDecode ==
  (/\ pc # "idle" /\ Len(reg.fn.in) = 2 /\ Ran(form, "defaults") /\ ~form.panic
   /\ BadDefaults(Pointee(reg.fn.in[2]), form.sourced)
        \cup NestedBadDefaults(Pointee(reg.fn.in[2]), form.sourced) # {}) =>
    /\ Len(form.err) >= 4
    /\ \A k \in 1..Len(DefaultErrorNames(Pointee(reg.fn.in[2]), form.sourced,
                         First(BadDefaults(Pointee(reg.fn.in[2]), form.sourced)
                                 \cup NestedBadDefaults(Pointee(reg.fn.in[2]), form.sourced)))) :
         form.err[k] =
           DefaultErrorNames(Pointee(reg.fn.in[2]), form.sourced,
             First(BadDefaults(Pointee(reg.fn.in[2]), form.sourced)
                     \cup NestedBadDefaults(Pointee(reg.fn.in[2]), form.sourced)))[k]
    /\ pc = "done"
    /\ ~Called("ValidateStruct") /\ ~Called("handler")
    /\ calls[Len(calls)] = Call("HandleError", BindingError(form.err), <<>>)

C23_Witness ==
  /\ pc = "done"
  /\ Ran(form, "defaults")
  /\ form.err # <<>>
  /\ form.err[1] = "embedded struct" /\ form.err[2] = "Limits"
  /\ form.err[3] = "field" /\ form.err[4] = "Max"
  /\ builder.validator = "set"

\* the same for a field of the record itself
C23_WitnessOwnField ==
  /\ pc = "done"
  /\ Ran(form, "defaults")
  /\ form.err # <<>>
  /\ form.err[1] = "field" /\ form.err[2] = "Age"

\* the literal denotes an integer outside the range of the integer kind
OutOfRange(s, kind) ==
  /\ IsIntLiteral(s)
  /\ \/ DecGreater(LiteralDigits(s), MaxDigits(FALSE, FALSE))
     \/ /\ Len(LiteralDigits(s)) <= 9
        /\ \/ kind \in UintKinds /\ Denoted(s) < 0
           \/ kind = "int8" /\ (Denoted(s) < 0 - 128 \/ Denoted(s) > 127)
           \/ kind = "int16" /\ (Denoted(s) < 0 - 32768 \/ Denoted(s) > 32767)
           \/ kind = "uint8" /\ Denoted(s) > 255
           \/ kind = "uint16" /\ Denoted(s) > 65535

\* C24: coercing a decimal literal whose value lies outside the range of
\* the target integer type (300 into int8, 256 into uint8) is an error;
\* coercion never returns a wrapped or truncated integer.
C24_OutOfRangeIsError ==
  (coDone /\ coTy \in IntegerTypes /\ OutOfRange(coS, coTy.kind)) => coRes.err # <<>>

\* the formats of the list that parse the string, by their place in it
ParsingFormats(s) == {i \in 1..Len(timeFormats) : TimeParse(timeFormats[i], s).ok}

\* C25: coercing a non-empty string to a timestamp gives the result of the
\* first format of the list that parses it, and an error only when no
\* format of the list parses it.
C25_FirstTimeFormatWins ==
  (coDone /\ coTy = timeTy /\ coS # <<>>) =>
    IF ParsingFormats(coS) = {} THEN coRes.err # <<>> /\ coRes.val = ZeroTime
    ELSE coRes = Coerced(TimeParse(timeFormats[First(ParsingFormats(coS))], coS).v)

\* a date: the sixth format is the first that parses it
C25_Witness ==
  /\ coDone /\ coTy = timeTy
  /\ coS = Lit.L_2023m01m01
  /\ First(ParsingFormats(coS)) = 6
  /\ coRes.err = <<>>
  /\ coRes.val.date = <<2023, 1, 1>>

\* the error of the earliest rule a candidate violates, the rules taken in
\* the order: callable, number of parameters, first parameter, second
\* parameter, number of results, types of the results
EarliestViolation(i) ==
  IF i.kind # "func" THEN <<"input must be a function">>
  ELSE IF Len(i.in) = 0 THEN <<"function must have at least one parameter">>
  ELSE IF Len(i.in) > 2 THEN <<"function can have at most 2 parameters">>
  ELSE IF i.in[1] # GinContext THEN <<"first parameter must be *gin.Context">>
  ELSE IF Len(i.in) = 2 /\ i.in[2].kind # "struct"
          /\ (i.in[2].kind # "ptr" \/ i.in[2].elem[1].kind # "struct")
    THEN <<"second parameter must be a struct or pointer to struct">>
  ELSE IF Len(i.out) = 0 THEN <<"function must have at least one return value">>
  ELSE IF Len(i.out) > 2 THEN <<"function can have at most 2 return values">>
  ELSE IF Len(i.out) = 1 /\ ~i.out[1].impl THEN <<"single return value must be error">>
  ELSE IF Len(i.out) = 2 /\ ~i.out[2].impl THEN <<"second return value must be error">>
  ELSE <<>>

\* C26: registration checks the rules in the order callable, 1 or 2
\* parameters, first parameter is the context, second parameter is a record
\* or a pointer to one, 1 or 2 results, results are error-like; the error
\* returned names the earliest rule of that order the candidate violates.
C26_EarliestRuleNamed ==
  (reg.state = "returned" /\ reg.fn.kind # "nil") => reg.err = EarliestViolation(reg.fn)

\* C27: for every value handed to it, the untyped nil included,
\* FormBindingGinHandlerFunc returns a handler or an error; it never panics.
C27_RegistrationNeverPanics ==
  reg.state # "none" =>
    /\ reg.state = "returned"
    /\ reg.handler \/ reg.err # <<>>

\* the decoder ran applyDefaultValues on the record and it succeeded
DefaultsSucceeded == deSucceeded /\ Ran(deRes, "defaults")

\* C28: default application is idempotent: applyDefaultValues applied again
\* to a record on which it has succeeded succeeds and changes no field.
C28_DefaultsIdempotent ==
  DefaultsSucceeded => applyDefaultValues(deRecTy, deRecord) = Defaulted(deRecord)

\* the first application set at least two fields of the record, one of them
\* behind a pointer it allocated
C28_Witness ==
  /\ DefaultsSucceeded
  /\ deRecTy = PointerRequest
  /\ Cardinality({i \in 1..Len(deRecTy.fields) : deRes.sourced[i] # deRecord[i]}) >= 2
  /\ deRes.sourced[2] = <<>>
  /\ deRecord[2] = <<25>>
  /\ applyDefaultValues(deRecTy, deRecord).val = deRecord

\* the fields tagged `default` whose type is a pointer
DefaultedPointers(ty) ==
  {i \in 1..Len(ty.fields) :
     /\ ty.fields[i].exported /\ ~ty.fields[i].anonymous
     /\ HasTag(ty.fields[i], "default")
     /\ ty.fields[i].type.kind = "ptr"}

\* C29: a default-tagged pointer field the sources set to a non-nil pointer
\* is left as the sources set it by the defaults, also when it points to the
\* zero value.
C29_SuppliedPointerKept ==
  DefaultsSucceeded =>
    \A i \in DefaultedPointers(deRecTy) : deRes.sourced[i] # <<>> => deRecord[i] = deRes.sourced[i]

\* the body gave 0 for Age *int `default:"25"`: Age points to 0, while
\* IsActive, absent from the body, points to its default
C29_Witness ==
  /\ DefaultsSucceeded
  /\ deRecTy = PointerRequest
  /\ deRes.sourced[2] = <<0>>
  /\ deRecord[2] = <<0>>
  /\ deRes.sourced[3] = <<>>
  /\ deRecord[3] = <<TRUE>>

\* the decode p into a pointer to a record type, given the decode v of the
\* same request into the record type: the error of v unchanged, else a
\* non-nil pointer to a record with the fields of v
pointerForm(p, v) ==
  IF v.err # <<>> THEN p.err = v.err /\ p.val = <<>>
  ELSE /\ p.err = <<>>
       /\ p.val # <<>>
       /\ p.val[1] = v.val

\* C30: decoding a request for a parameter of type pointer to T gives a
\* non-nil pointer to a record whose fields are those decoding the request
\* for a parameter of type T gives, defaults included; an error of the
\* decode for T is the error of the decode for the pointer, unchanged.
C30_PointerFormAsValueForm ==
  (deDone /\ deTy.kind = "ptr" /\ ~deRes.panic) =>
    pointerForm(deRes, bindingFormValue(deReq, Pointee(deTy)))

\* a pointer to a record the defaults completed
C30_Witness ==
  /\ deDone /\ deTy = PtrTo(DefaultsRequest)
  /\ deRes.err = <<>> /\ deRes.val # <<>>
  /\ Ran(deRes, "defaults")
  /\ deRes.val[1] # deRes.sourced
  /\ deRes.val[1] = bindingFormValue(deReq, DefaultsRequest).val

\* the error of the record form, reported for the pointer form
C30_WitnessError ==
  /\ deDone /\ deTy = PtrTo(BadDefaultRequest)
  /\ deRes.err # <<>> /\ deRes.val = <<>>
  /\ deRes.err = bindingFormValue(deReq, BadDefaultRequest).err

====
